---- MODULE Spec2Model ----
(***************************************************************************)
(* Model of the vacancy client: the Vacancy record normalizer              *)
(* (src/src/vacancy.py), its text helpers (src/src/services.py) and the    *)
(* JSON / CSV file stores (src/src/fileworker.py).                         *)
(*                                                                         *)
(* Python values are tagged records [k |-> kind, v |-> payload]:           *)
(*   absent key, None, int, float, str, list, dict.                        *)
(* A str is the sequence of its characters (one-character strings).        *)
(* A finite float is its number of tenths (1.9 is 19); inf and nan are     *)
(* their own kinds.  A Decimal salary bound is an integer (the code only   *)
(* ever builds it from str(int(..))); the average, which may end in .5,    *)
(* is kept as its number of halves.                                        *)
(* Russian literals are transliterated: strings of the module are ASCII.   *)
(***************************************************************************)
EXTENDS Integers, Sequences, FiniteSets, TLC

VARIABLES
    pc,        \* position of the running scenario
    data,      \* the raw input handed to Vacancy(...)
    rec,       \* outcome of Vacancy(data): [err, v]
    dict,      \* rec.v.to_dict()
    rec2,      \* outcome of Vacancy(dict)
    coerced,   \* outcomes of _normalize_salary_value on the two raw bounds
    vacA, vacB, vacC,   \* three records held by a caller
    cmp,       \* results of the comparison operators on them
    kind,      \* which file worker is in use: "json" or "csv"
    file,      \* the store's file: [exists, header, rows]
    batch,     \* argument of the last save_data call
    lastOp,    \* the last store operation
    view,      \* rec.v.salary_info and str(rec.v)
    api,       \* the page payloads the API answers with, by page index
    page,      \* load_vacancies: the page index
    vacancies, \* load_vacancies: the records collected
    outcome,   \* load_vacancies: "running", "returned" or the exception raised
    requested, \* load_vacancies: the page indices requested so far in this call
    other,     \* a value that is not a Vacancy, compared with vacA
    cmpOther,  \* what vacA's comparison methods return for it, and vacA == other
    probText,  \* argument of extract_probation_period
    probation, \* its result
    main_vacancies,   \* main: the list `vacancies` read from the store
    topN,             \* main: the N the user typed (n)
    sorted_vacancies, \* main: the sorted copy
    top_n             \* main: the records shown

vars == <<pc, data, rec, dict, rec2, coerced, vacA, vacB, vacC, cmp,
          kind, file, batch, lastOp, view, api, page, vacancies, outcome, requested,
          other, cmpOther, probText, probation, main_vacancies, topN, sorted_vacancies, top_n>>

-----------------------------------------------------------------------------
(* Bounds *)

\* integer salary bounds in the inputs range over -MaxSalary..MaxSalary
MaxSalary == 1
\* the store is not grown beyond this many rows
MaxStore == 2

-----------------------------------------------------------------------------
(* Python values *)

Absent == [k |-> "absent", v |-> 0]
PyNone == [k |-> "none", v |-> 0]
PyInt(n) == [k |-> "int", v |-> n]
PyFloat(tenths) == [k |-> "float", v |-> tenths]
PyInf == [k |-> "finf", v |-> 0]
PyNaN == [k |-> "fnan", v |-> 0]
PyStr(s) == [k |-> "str", v |-> s]
PyBool(b) == [k |-> "bool", v |-> b]
\* a list is the sequence of its elements
PyListOf(xs) == [k |-> "list", v |-> xs]
\* some non-empty list
PyList == PyListOf(<<PyNone>>)
PyDict(m) == [k |-> "dict", v |-> m]

\* dict.get(key): None when the key is missing
Get(val) == IF val.k = "absent" THEN PyNone ELSE val
\* dict.get(key, ""): the default when the key is missing
GetOr(val, dflt) == IF val.k = "absent" THEN dflt ELSE val
\* the value a mapping holds under key, Absent when it has no such key
At(m, key) == IF key \in DOMAIN m THEN m[key] ELSE Absent

IsStr(val) == val.k = "str"
IsDict(val) == val.k = "dict"
IsList(val) == val.k = "list"

\* bool(x)
Truthy(val) ==
    CASE val.k = "none" -> FALSE
      [] val.k = "absent" -> FALSE
      [] val.k = "int" -> val.v # 0
      [] val.k = "float" -> val.v # 0
      [] val.k = "str" -> val.v # <<>>
      [] val.k = "bool" -> val.v
      [] val.k = "list" -> val.v # <<>>
      [] val.k = "dict" -> \E f \in DOMAIN val.v : val.v[f].k # "absent"
      [] OTHER -> TRUE

\* a or b
PyOr(a, b) == IF Truthy(a) THEN a ELSE b

-----------------------------------------------------------------------------
(* Strings *)

Upper == <<"A","B","C","D","E","F","G","H","I","J","K","L","M",
           "N","O","P","Q","R","S","T","U","V","W","X","Y","Z">>
Lower == <<"a","b","c","d","e","f","g","h","i","j","k","l","m",
           "n","o","p","q","r","s","t","u","v","w","x","y","z">>
Digits == <<"0","1","2","3","4","5","6","7","8","9">>

LowerChar(c) ==
    IF \E i \in DOMAIN Upper : Upper[i] = c
    THEN Lower[CHOOSE i \in DOMAIN Upper : Upper[i] = c]
    ELSE c

\* str.lower()
lower(s) == [i \in DOMAIN s |-> LowerChar(s[i])]

IsSpace(c) == c \in {" ", "\t", "\n"}

RECURSIVE LStrip(_)
LStrip(s) == IF s # <<>> /\ IsSpace(Head(s)) THEN LStrip(Tail(s)) ELSE s

RECURSIVE RStrip(_)
RStrip(s) ==
    IF s # <<>> /\ IsSpace(s[Len(s)]) THEN RStrip(SubSeq(s, 1, Len(s) - 1)) ELSE s

\* str.strip()
strip(s) == RStrip(LStrip(s))

StartsWith(s, p) == Len(s) >= Len(p) /\ SubSeq(s, 1, Len(p)) = p

IsDigit(c) == \E i \in DOMAIN Digits : Digits[i] = c
DigitVal(c) == (CHOOSE i \in DOMAIN Digits : Digits[i] = c) - 1

RECURSIVE NatToStr(_)
NatToStr(n) ==
    IF n < 10 THEN <<Digits[n + 1]>>
    ELSE NatToStr(n \div 10) \o <<Digits[(n % 10) + 1]>>

\* str(n) for an int n
IntToStr(n) == IF n < 0 THEN <<"-">> \o NatToStr(-n) ELSE NatToStr(n)

\* str(x) for the value kinds the inputs hold
str(val) ==
    CASE val.k = "str" -> val.v
      [] val.k = "int" -> IntToStr(val.v)
      [] val.k = "none" -> <<"N","o","n","e">>
      [] val.k = "bool" -> IF val.v THEN <<"T","r","u","e">> ELSE <<"F","a","l","s","e">>
      [] OTHER -> <<"[","]">>

AllDigits(s) == \A i \in DOMAIN s : IsDigit(s[i])

RECURSIVE DigitsToNat(_)
DigitsToNat(s) ==
    IF s = <<>> THEN 0
    ELSE 10 * DigitsToNat(SubSeq(s, 1, Len(s) - 1)) + DigitVal(s[Len(s)])

-----------------------------------------------------------------------------
(* src/src/services.py *)

\* "Вакансия без названия"
TitlePlaceholder ==
    <<"V","a","k","a","n","s","i","y","a"," ","b","e","z"," ",
      "n","a","z","v","a","n","i","y","a">>
\* "Не указан"
NotSpecified == <<"N","e"," ","u","k","a","z","a","n">>

S_none == <<"n","o","n","e">>
S_null == <<"n","u","l","l">>
S_not_specified == <<"n","o","t"," ","s","p","e","c","i","f","i","e","d">>
S_http == <<"h","t","t","p",":","/","/">>
S_https == <<"h","t","t","p","s",":","/","/">>
S_inf == <<"i","n","f">>
S_infinity == <<"i","n","f","i","n","i","t","y">>
S_nan == <<"n","a","n">>

\* validate_title without the placeholder branch
validate_title_no_placeholder(title) == strip(title)

\* validate_title(title): title is a str
validate_title(title) ==
    IF title = <<>> \/ strip(title) = <<>> THEN TitlePlaceholder ELSE strip(title)

\* re.match(r"^https?://", url)
MatchesHttp(url) == StartsWith(url, S_http) \/ StartsWith(url, S_https)

\* validate_url(url): url is whatever value the caller passes.  A truthy
\* value that is not a str has no .strip(): AttributeError.
validate_url(url) ==
    IF ~Truthy(url) THEN [err |-> "none", v |-> <<>>]
    ELSE IF ~IsStr(url) THEN [err |-> "AttributeError", v |-> <<>>]
    ELSE IF strip(url.v) = <<>> THEN [err |-> "none", v |-> <<>>]
    ELSE IF ~MatchesHttp(strip(url.v)) THEN [err |-> "ValueError", v |-> <<>>]
    ELSE [err |-> "none", v |-> strip(url.v)]

-----------------------------------------------------------------------------
(* Number parsing and conversion used by Vacancy._normalize_salary_value *)

DotAt(s) == IF \E i \in DOMAIN s : s[i] = "."
            THEN CHOOSE i \in DOMAIN s : s[i] = "." /\ \A j \in 1..(i - 1) : s[j] # "."
            ELSE 0

\* float(s) for a str s: optional sign, then inf / infinity / nan in any
\* letter case, or digits with an optional fraction.  (Exponents and digit
\* separators are not modelled; no input of the model uses them.)
\* k is "bad" (ValueError), "inf", "nan" or "fin"; ip is the integer part.
ParseFloat(s0) ==
    LET s == strip(s0)
        signed == s # <<>> /\ Head(s) \in {"-", "+"}
        neg == s # <<>> /\ Head(s) = "-"
        body == IF signed THEN Tail(s) ELSE s
        d == DotAt(body)
        ipart == IF d = 0 THEN body ELSE SubSeq(body, 1, d - 1)
        fpart == IF d = 0 THEN <<>> ELSE SubSeq(body, d + 1, Len(body))
    IN  IF lower(body) \in {S_inf, S_infinity} THEN [k |-> "inf", neg |-> neg, ip |-> 0]
        ELSE IF lower(body) = S_nan THEN [k |-> "nan", neg |-> neg, ip |-> 0]
        ELSE IF /\ AllDigits(ipart) /\ AllDigits(fpart)
                /\ (ipart # <<>> \/ fpart # <<>>)
             THEN [k |-> "fin", neg |-> neg, ip |-> DigitsToNat(ipart)]
        ELSE [k |-> "bad", neg |-> FALSE, ip |-> 0]

\* int(x) for a finite float given in tenths: truncation toward zero
TruncTenths(t) == IF t >= 0 THEN t \div 10 ELSE -((-t) \div 10)

\* Decimal(s) for the str of an int
DecimalOfIntStr(s) ==
    IF s # <<>> /\ Head(s) = "-" THEN -DigitsToNat(Tail(s)) ELSE DigitsToNat(s)

\* Vacancy._normalize_salary_value(salary_val): [err, v]; err names the
\* exception that leaves the method, "none" when it returns v.
normalize_salary_value(salary_val) ==
    CASE salary_val.k \in {"none", "absent"} -> [err |-> "none", v |-> 0]
      [] salary_val.k = "int" ->
            [err |-> "none", v |-> DecimalOfIntStr(IntToStr(salary_val.v))]
      [] salary_val.k = "bool" ->
            [err |-> "none", v |-> DecimalOfIntStr(IntToStr(IF salary_val.v THEN 1 ELSE 0))]
      [] salary_val.k = "float" ->
            [err |-> "none", v |-> DecimalOfIntStr(IntToStr(TruncTenths(salary_val.v)))]
      [] salary_val.k = "finf" -> [err |-> "OverflowError", v |-> 0]
      [] salary_val.k = "fnan" -> [err |-> "ValueError", v |-> 0]
      [] salary_val.k = "str" ->
            LET salary_str == strip(salary_val.v)
                num_val == ParseFloat(salary_str)
            IN  IF salary_str \in {S_none, S_null, <<>>} THEN [err |-> "none", v |-> 0]
                ELSE CASE num_val.k = "bad" -> [err |-> "none", v |-> 0]
                       [] num_val.k = "nan" -> [err |-> "none", v |-> 0]
                       [] num_val.k = "inf" -> [err |-> "OverflowError", v |-> 0]
                       [] OTHER ->
                            [err |-> "none",
                             v |-> DecimalOfIntStr(IntToStr(
                                      IF num_val.neg THEN -num_val.ip ELSE num_val.ip))]
      [] OTHER -> [err |-> "none", v |-> 0]

-----------------------------------------------------------------------------
(* Literal parsing used for professional_roles: json.loads and             *)
(* ast.literal_eval on a str.  The grammar covered: quoted strings without *)
(* escapes, non-negative integers, None / null, lists and mappings of      *)
(* these.  Every other text is reported as not parsing; the code treats a  *)
(* text that does not parse and one that parses to a value that is neither *)
(* a list (whole value) nor a mapping (element) alike.  Of a parsed        *)
(* mapping only the `name` entry is kept, the one entry the code reads.    *)
(* Adjacent string literals, which Python joins, are not modelled; no      *)
(* input of the model holds them.                                          *)

NoParse == [ok |-> FALSE, val |-> PyNone, next |-> 0]

RECURSIVE SkipSpaces(_, _)
SkipSpaces(s, i) == IF i <= Len(s) /\ IsSpace(s[i]) THEN SkipSpaces(s, i + 1) ELSE i

RECURSIVE ScanDigits(_, _)
ScanDigits(s, i) == IF i <= Len(s) /\ IsDigit(s[i]) THEN ScanDigits(s, i + 1) ELSE i

\* the first position from i on that holds c, 0 when there is none
FindChar(s, i, c) ==
    IF \E j \in i..Len(s) : s[j] = c
    THEN CHOOSE j \in i..Len(s) : s[j] = c /\ \A h \in i..(j - 1) : s[h] # c
    ELSE 0

StartsWithAt(s, i, p) == i + Len(p) - 1 <= Len(s) /\ SubSeq(s, i, i + Len(p) - 1) = p

\* JSON knows double quotes and null, Python both quotes and None
QuotesOf(json) == IF json THEN {"\""} ELSE {"\"", "'"}
NoneWordOf(json) == IF json THEN S_null ELSE <<"N","o","n","e">>

RECURSIVE ParseValue(_, _, _)
RECURSIVE ParseItems(_, _, _, _)
RECURSIVE ParsePairs(_, _, _, _)

\* one value starting at or after position i0: [ok, val, next]
ParseValue(s, i0, json) ==
    LET i == SkipSpaces(s, i0)
    IN  IF i > Len(s) THEN NoParse
        ELSE IF s[i] \in QuotesOf(json) THEN
            LET j == FindChar(s, i + 1, s[i])
            IN  IF j = 0 THEN NoParse
                ELSE [ok |-> TRUE, val |-> PyStr(SubSeq(s, i + 1, j - 1)), next |-> j + 1]
        ELSE IF IsDigit(s[i]) THEN
            LET j == ScanDigits(s, i)
            IN  IF s[i] = "0" /\ j > i + 1 THEN NoParse
                ELSE [ok |-> TRUE, val |-> PyInt(DigitsToNat(SubSeq(s, i, j - 1))),
                      next |-> j]
        ELSE IF s[i] = "[" THEN ParseItems(s, i + 1, <<>>, json)
        ELSE IF s[i] = "{" THEN
            LET e == SkipSpaces(s, i + 1)
            IN  IF e <= Len(s) /\ s[e] = "}"
                THEN [ok |-> TRUE, val |-> PyDict([name |-> Absent]), next |-> e + 1]
                ELSE ParsePairs(s, i + 1, Absent, json)
        ELSE IF StartsWithAt(s, i, NoneWordOf(json))
             THEN [ok |-> TRUE, val |-> PyNone, next |-> i + Len(NoneWordOf(json))]
        ELSE NoParse

\* the elements of a list after "[" or after a comma, acc the ones read
ParseItems(s, i0, acc, json) ==
    LET i == SkipSpaces(s, i0)
    IN  IF i > Len(s) THEN NoParse
        ELSE IF s[i] = "]" THEN
            IF acc = <<>> \/ ~json
            THEN [ok |-> TRUE, val |-> PyListOf(acc), next |-> i + 1]
            ELSE NoParse
        ELSE LET r == ParseValue(s, i, json)
                 k == SkipSpaces(s, r.next)
             IN  IF ~r.ok \/ k > Len(s) THEN NoParse
                 ELSE IF s[k] = "," THEN ParseItems(s, k + 1, Append(acc, r.val), json)
                 ELSE IF s[k] = "]"
                      THEN [ok |-> TRUE, val |-> PyListOf(Append(acc, r.val)),
                            next |-> k + 1]
                 ELSE NoParse

\* the entries of a mapping after "{" or after a comma, name the value
\* read for the key "name" so far
ParsePairs(s, i0, name, json) ==
    LET i == SkipSpaces(s, i0)
    IN  IF i > Len(s) THEN NoParse
        ELSE IF s[i] = "}" THEN
            IF ~json
            THEN [ok |-> TRUE, val |-> PyDict([name |-> name]), next |-> i + 1]
            ELSE NoParse
        ELSE LET key == ParseValue(s, i, json)
                 c == SkipSpaces(s, key.next)
             IN  IF ~key.ok \/ key.val.k \notin {"str", "int"} \/ (json /\ ~IsStr(key.val))
                    \/ c > Len(s)
                 THEN NoParse
                 ELSE IF s[c] # ":" THEN NoParse
                 ELSE LET r == ParseValue(s, c + 1, json)
                          k == SkipSpaces(s, r.next)
                          named == IF key.val = PyStr(<<"n","a","m","e">>) THEN r.val
                                   ELSE name
                      IN  IF ~r.ok \/ k > Len(s) THEN NoParse
                          ELSE IF s[k] = "," THEN ParsePairs(s, k + 1, named, json)
                          ELSE IF s[k] = "}"
                               THEN [ok |-> TRUE, val |-> PyDict([name |-> named]),
                                     next |-> k + 1]
                          ELSE NoParse

\* the whole text is one value: [ok, val]
ParseWhole(s, json) ==
    LET r == ParseValue(s, 1, json)
    IN  IF r.ok /\ SkipSpaces(s, r.next) > Len(s) THEN r ELSE NoParse

\* json.loads(s)
json_loads(s) == ParseWhole(s, TRUE)
\* ast.literal_eval(s)
literal_eval(s) == ParseWhole(s, FALSE)

\* s.replace("'", '"')
replace_quotes(s) == [i \in DOMAIN s |-> IF s[i] = "'" THEN "\"" ELSE s[i]]

-----------------------------------------------------------------------------
(* clean_html of src/src/services.py *)

RECURSIVE StripTags(_)
\* re.sub(r"<[^>]+>", "", text): a tag is "<", at least one character that
\* is not ">", then ">"
StripTags(s) ==
    IF s = <<>> THEN <<>>
    ELSE IF Head(s) = "<" /\ Len(s) >= 3 /\ s[2] # ">" /\ FindChar(s, 3, ">") # 0
         THEN StripTags(SubSeq(s, FindChar(s, 3, ">") + 1, Len(s)))
         ELSE <<Head(s)>> \o StripTags(Tail(s))

\* clean_html(text): text is a str
clean_html(text) == IF text = <<>> THEN <<>> ELSE strip(StripTags(text))

-----------------------------------------------------------------------------
(* src/src/vacancy.py: Vacancy.__init__, field by field.  m is the input   *)
(* mapping: a record of its keys, a missing key holding Absent.            *)

\* an id that is empty for every falsy value
IdOfTruthy(m) ==
    LET id_val == Get(At(m, "id"))
    IN  IF Truthy(id_val) THEN str(id_val) ELSE <<>>

\* self.id (lines 39-41)
IdOf(m) ==
    LET id_val == Get(At(m, "id"))
    IN  IF id_val.k # "none" THEN str(id_val) ELSE <<>>

\* a title read by shape: from `title` when the mapping has a `url` or an
\* `employer_name` key, from `name` otherwise
TitleOfShape(m) ==
    LET saved == At(m, "url").k # "absent" \/ At(m, "employer_name").k # "absent"
        title_val == IF saved THEN Get(At(m, "title")) ELSE Get(At(m, "name"))
        cleaned ==
            IF \/ title_val.k = "none"
               \/ (IsStr(title_val) /\ lower(title_val.v) \in {S_none, S_null, <<>>})
            THEN <<>>
            ELSE strip(str(title_val))
    IN  validate_title(cleaned)

\* self.title (lines 43-51)
TitleOf(m) ==
    LET title_val == PyOr(Get(At(m, "title")), Get(At(m, "name")))
        cleaned ==
            IF \/ title_val.k = "none"
               \/ (IsStr(title_val) /\ lower(title_val.v) \in {S_none, S_null, <<>>})
            THEN <<>>
            ELSE strip(str(title_val))
    IN  validate_title(cleaned)

\* self.url (lines 53-55): [err, v]
UrlOf(m) ==
    LET url_val == PyOr(Get(At(m, "url")), GetOr(At(m, "alternate_url"), PyStr(<<>>)))
    IN  validate_url(IF Truthy(url_val) THEN url_val ELSE PyStr(<<>>))

\* salary_from_raw, salary_to_raw (lines 75-78, 94-95)
HasSalaryObj(m) == Truthy(Get(At(m, "salary"))) /\ IsDict(Get(At(m, "salary")))
SalaryFromRaw(m) ==
    IF HasSalaryObj(m) THEN Get(At(m.salary.v, "from")) ELSE Get(At(m, "salary_from"))
SalaryToRaw(m) ==
    IF HasSalaryObj(m) THEN Get(At(m.salary.v, "to")) ELSE Get(At(m, "salary_to"))

\* "Не указано"
EmployerPlaceholder == <<"N","e"," ","u","k","a","z","a","n","o">>
S_RUB == <<"R","U","B">>
S_true == <<"t","r","u","e">>
S_one == <<"1">>
S_yes == <<"y","e","s">>
\* "да"
S_da == <<"d","a">>

\* employer_obj is used when it is a non-empty mapping (lines 58-59)
HasEmployerObj(m) == Truthy(Get(At(m, "employer"))) /\ IsDict(Get(At(m, "employer")))

\* self.employer_name (lines 58-72)
EmployerNameOf(m) ==
    LET employer_name_val ==
            IF HasEmployerObj(m) THEN Get(At(m.employer.v, "name"))
            ELSE Get(At(m, "employer_name"))
    IN  IF \/ employer_name_val.k = "none"
           \/ (IsStr(employer_name_val)
                 /\ lower(employer_name_val.v) \in {S_none, S_null, S_not_specified})
        THEN EmployerPlaceholder
        ELSE str(employer_name_val)

\* self.employer_url (lines 61, 64): the value as found, None when missing
EmployerUrlOf(m) ==
    IF HasEmployerObj(m) THEN Get(At(m.employer.v, "url")) ELSE Get(At(m, "employer_url"))

\* self.currency (lines 79-84, 96-101)
CurrencyOf(m) ==
    LET currency_val == IF HasSalaryObj(m) THEN Get(At(m.salary.v, "currency"))
                        ELSE Get(At(m, "currency"))
    IN  IF Truthy(currency_val) /\ lower(str(currency_val)) \notin {S_none, S_null}
        THEN str(currency_val)
        ELSE S_RUB

\* self.gross (lines 85-91, 102-108)
GrossOf(m) ==
    LET gross_val == IF HasSalaryObj(m) THEN Get(At(m.salary.v, "gross"))
                     ELSE Get(At(m, "gross"))
    IN  IF gross_val.k = "none" THEN TRUE
        ELSE IF IsStr(gross_val)
             THEN strip(lower(gross_val.v)) \in {S_true, S_one, S_yes, S_da}
        ELSE Truthy(gross_val)

\* snippet_obj is used when it is a non-empty mapping (lines 115-116)
HasSnippetObj(m) == Truthy(Get(At(m, "snippet"))) /\ IsDict(Get(At(m, "snippet")))

\* str(x) if x else "" followed by clean_html (lines 123-128)
CleanText(val) == clean_html(IF Truthy(val) THEN str(val) ELSE <<>>)

\* self.responsibilities, self.requirements (lines 115-128)
ResponsibilitiesOf(m) ==
    CleanText(IF HasSnippetObj(m) THEN GetOr(At(m.snippet.v, "responsibility"), PyStr(<<>>))
              ELSE GetOr(At(m, "responsibilities"), PyStr(<<>>)))
RequirementsOf(m) ==
    CleanText(IF HasSnippetObj(m) THEN GetOr(At(m.snippet.v, "requirement"), PyStr(<<>>))
              ELSE GetOr(At(m, "requirements"), PyStr(<<>>)))

\* what a parsed text contributes when it is the element role (lines
\* 150-153, 158-161): the name of a mapping that has one, else the text
NameOrRole(parsed, role) ==
    IF IsDict(parsed) /\ At(parsed.v, "name").k # "absent" THEN parsed.v.name ELSE role

\* str(role) for a mapping without a name or for another value (170, 172);
\* the only mapping without a name among the inputs is the empty one
StrOfRole(role) == PyStr(IF IsDict(role) THEN <<"{","}">> ELSE str(role))

\* one element of professional_roles (lines 143-172)
RoleOf(role) ==
    IF IsStr(role) THEN
        LET role_dict == json_loads(replace_quotes(role.v))
            role_dict2 == literal_eval(role.v)
        IN  IF role_dict.ok THEN NameOrRole(role_dict.val, role)
            ELSE IF role_dict2.ok THEN NameOrRole(role_dict2.val, role)
            ELSE role
    ELSE IF IsDict(role) THEN
        IF At(role.v, "name").k # "absent" THEN role.v.name ELSE StrOfRole(role)
    ELSE StrOfRole(role)

\* self.professional_roles (lines 133-172): the list as a sequence
RolesOf(m) ==
    LET given == GetOr(At(m, "professional_roles"), PyListOf(<<>>))
        roles == IF IsStr(given)
                 THEN (IF literal_eval(given.v).ok THEN literal_eval(given.v).val
                       ELSE PyListOf(<<>>))
                 ELSE given
    IN  IF Truthy(roles) /\ IsList(roles)
        THEN [i \in DOMAIN roles.v |-> RoleOf(roles.v[i])]
        ELSE <<>>

\* self.experience (lines 176-190)
ExperienceOf(m) ==
    LET experience_val == Get(At(m, "experience"))
    IN  IF IsDict(experience_val)
        THEN GetOr(At(experience_val.v, "name"), PyStr(NotSpecified))
        ELSE PyStr(NotSpecified)

\* address_obj is used when it is a non-empty mapping (lines 206-207)
HasAddressObj(m) == Truthy(Get(At(m, "address"))) /\ IsDict(Get(At(m, "address")))

\* str(x) if x and str(x).lower() not in ("none", "null") else ""
StreetText(val) ==
    IF Truthy(val) /\ lower(str(val)) \notin {S_none, S_null} THEN str(val) ELSE <<>>

\* self.street, self.building (lines 209-214, 224-233)
StreetOf(m) ==
    StreetText(IF HasAddressObj(m) THEN Get(At(m.address.v, "street"))
               ELSE Get(At(m, "street")))
BuildingOf(m) ==
    StreetText(IF HasAddressObj(m) THEN Get(At(m.address.v, "building"))
               ELSE Get(At(m, "building")))

\* self.city (lines 205-222)
CityOf(m) ==
    LET address_obj == Get(At(m, "address"))
        city_val == IF Truthy(address_obj) /\ IsDict(address_obj)
                    THEN Get(At(address_obj.v, "city"))
                    ELSE Get(At(m, "city"))
    IN  IF \/ city_val.k = "none"
           \/ (IsStr(city_val) /\ lower(city_val.v) \in {S_none, S_null, S_not_specified})
        THEN NotSpecified
        ELSE str(city_val)

NoVacancy == [id |-> <<>>, title |-> <<>>, url |-> <<>>,
              employer_name |-> <<>>, employer_url |-> PyNone,
              salary_from |-> 0, salary_to |-> 0, currency |-> <<>>, gross |-> TRUE,
              responsibilities |-> <<>>, requirements |-> <<>>,
              professional_roles |-> <<>>, experience |-> PyNone,
              city |-> <<>>, street |-> <<>>, building |-> <<>>]

Raised(e) == [err |-> e, v |-> NoVacancy]

\* Vacancy(data): [err, v]; err is the exception that leaves __init__
\* ("none" when the record v is built).  The fields are computed in the
\* order of the code, so the first failing one decides the exception.
Vacancy(d) ==
    IF ~IsDict(d) THEN Raised("TypeError")
    ELSE LET m == d.v
             url == UrlOf(m)
             sf == normalize_salary_value(SalaryFromRaw(m))
             st == normalize_salary_value(SalaryToRaw(m))
         IN  IF url.err # "none" THEN Raised(url.err)
             ELSE IF sf.err # "none" THEN Raised(sf.err)
             ELSE IF st.err # "none" THEN Raised(st.err)
             ELSE [err |-> "none",
                   v |-> [id |-> IdOf(m), title |-> TitleOf(m), url |-> url.v,
                          employer_name |-> EmployerNameOf(m),
                          employer_url |-> EmployerUrlOf(m),
                          salary_from |-> sf.v, salary_to |-> st.v,
                          currency |-> CurrencyOf(m), gross |-> GrossOf(m),
                          responsibilities |-> ResponsibilitiesOf(m),
                          requirements |-> RequirementsOf(m),
                          professional_roles |-> RolesOf(m),
                          experience |-> ExperienceOf(m),
                          city |-> CityOf(m), street |-> StreetOf(m),
                          building |-> BuildingOf(m)]]

\* Vacancy._get_numeric_salary(salary_val) on a Decimal bound: Decimal(str(x))
get_numeric_salary(salary_val) == DecimalOfIntStr(IntToStr(salary_val))

\* Vacancy.average_salary(): the Decimal result as its number of halves
average_salary(v) ==
    LET salary_from_num == get_numeric_salary(v.salary_from)
        salary_to_num == get_numeric_salary(v.salary_to)
    IN  IF salary_from_num = 0 /\ salary_to_num = 0 THEN 0
        ELSE salary_from_num + salary_to_num

\* a conversion that rounds halves away from zero
IntOfHalvesRounded(h) == IF h >= 0 THEN (h + 1) \div 2 ELSE -((1 - h) \div 2)

\* int(x) for a Decimal given in halves: truncation toward zero
IntOfHalves(h) == IF h >= 0 THEN h \div 2 ELSE -((-h) \div 2)

\* "Зарплата не указана" and "зарплата не указана"
SalaryNotStated ==
    <<"Z","a","r","p","l","a","t","a"," ","n","e"," ","u","k","a","z","a","n","a">>
SalaryNotStatedLower ==
    <<"z","a","r","p","l","a","t","a"," ","n","e"," ","u","k","a","z","a","n","a">>
\* "от " and "до "
S_ot == <<"o","t"," ">>
S_do == <<"d","o"," ">>

RECURSIVE GroupThousands(_)
GroupThousands(ds) ==
    IF Len(ds) <= 3 THEN ds
    ELSE GroupThousands(SubSeq(ds, 1, Len(ds) - 3)) \o <<",">>
            \o SubSeq(ds, Len(ds) - 2, Len(ds))

\* f"{x:,.0f}" for an integer-valued Decimal x
format_amount(n) == IF n < 0 THEN <<"-">> \o GroupThousands(NatToStr(-n))
                    ELSE GroupThousands(NatToStr(n))

\* f" {self.currency} ({'gross' if self.gross else 'net'})"
CurrencyTail(v) ==
    <<" ">> \o v.currency \o <<" ","(">>
        \o (IF v.gross THEN <<"g","r","o","s","s">> ELSE <<"n","e","t">>) \o <<")">>

\* a salary_info that names both bounds whenever they differ
salary_info_both_bounds(v) ==
    LET salary_from_num == get_numeric_salary(v.salary_from)
        salary_to_num == get_numeric_salary(v.salary_to)
    IN  IF salary_from_num = 0 /\ salary_to_num = 0 THEN SalaryNotStated
        ELSE IF salary_from_num = salary_to_num
             THEN format_amount(salary_from_num) \o CurrencyTail(v)
        ELSE S_ot \o format_amount(salary_from_num) \o <<" ">> \o S_do
                \o format_amount(salary_to_num) \o CurrencyTail(v)

\* Vacancy.salary_info
salary_info(v) ==
    LET salary_from_num == get_numeric_salary(v.salary_from)
        salary_to_num == get_numeric_salary(v.salary_to)
    IN  IF salary_from_num = 0 /\ salary_to_num = 0 THEN SalaryNotStated
        ELSE IF salary_from_num = salary_to_num /\ salary_from_num > 0
             THEN format_amount(salary_from_num) \o CurrencyTail(v)
        ELSE IF salary_from_num > 0 /\ salary_to_num > 0
             THEN S_ot \o format_amount(salary_from_num) \o <<" ">> \o S_do
                     \o format_amount(salary_to_num) \o CurrencyTail(v)
        ELSE IF salary_from_num > 0
             THEN S_ot \o format_amount(salary_from_num) \o CurrencyTail(v)
        ELSE IF salary_to_num > 0
             THEN S_do \o format_amount(salary_to_num) \o CurrencyTail(v)
        ELSE SalaryNotStatedLower

RECURSIVE JoinParts(_)
\* " | ".join(parts)
JoinParts(parts) ==
    IF parts = <<>> THEN <<>>
    ELSE IF Len(parts) = 1 THEN parts[1]
    ELSE parts[1] \o <<" ","|"," ">> \o JoinParts(Tail(parts))

\* a city segment that shows the placeholder too
city_part_unfiltered(v) == v.city

\* the segment shown for the city
city_part(v) == IF v.city # NotSpecified THEN v.city ELSE <<>>

\* Vacancy.__str__
vac_str(v) ==
    LET parts == <<v.title, salary_info(v), city_part(v)>>
    IN  JoinParts(SelectSeq(parts, LAMBDA x : x # <<>>))

\* Vacancy.to_dict(): the saved-shape mapping
to_dict(v) ==
    PyDict([id |-> PyStr(v.id),
            title |-> PyStr(IF v.title = <<>> \/ v.title = TitlePlaceholder
                            THEN TitlePlaceholder ELSE v.title),
            url |-> PyStr(v.url),
            salary_from |-> IF v.salary_from # 0 THEN PyInt(v.salary_from) ELSE PyNone,
            salary_to |-> IF v.salary_to # 0 THEN PyInt(v.salary_to) ELSE PyNone,
            city |-> PyStr(v.city),
            employer_name |-> PyStr(v.employer_name),
            employer_url |-> v.employer_url,
            currency |-> PyStr(v.currency),
            gross |-> PyBool(v.gross),
            responsibilities |-> PyStr(v.responsibilities),
            requirements |-> PyStr(v.requirements),
            professional_roles |-> PyListOf(v.professional_roles),
            experience |-> v.experience,
            street |-> PyStr(v.street),
            building |-> PyStr(v.building),
            salary_info |-> PyStr(salary_info(v)),
            average_salary |-> IF average_salary(v) # 0
                               THEN PyInt(IntOfHalves(average_salary(v)))
                               ELSE PyNone,
            name |-> Absent, alternate_url |-> Absent,
            salary |-> Absent, address |-> Absent])

\* an equality that also compares the titles
vac_eq_with_title(a, b) == average_salary(a) = average_salary(b) /\ a.title = b.title

\* Vacancy.__eq__, __lt__, __le__, __gt__, __ge__ on two Vacancy records
vac_eq(a, b) == average_salary(a) = average_salary(b)
vac_lt(a, b) == average_salary(a) < average_salary(b)
vac_le(a, b) == average_salary(a) <= average_salary(b)
vac_gt(a, b) == average_salary(a) > average_salary(b)
vac_ge(a, b) == average_salary(a) >= average_salary(b)

\* the value a comparison method returns for an operand it does not support
NotImplemented == [k |-> "NotImplemented", v |-> FALSE]
\* a Vacancy object as an operand: the one value isinstance(.., Vacancy) holds of
PyVacancy(v) == [k |-> "Vacancy", v |-> v]

eq_method_false(self, oth) ==
    IF oth.k # "Vacancy" THEN PyBool(FALSE) ELSE PyBool(vac_eq(self, oth.v))

\* the comparison methods on any operand (lines 313-336)
eq_method(self, oth) ==
    IF oth.k # "Vacancy" THEN NotImplemented ELSE PyBool(vac_eq(self, oth.v))
lt_method(self, oth) ==
    IF oth.k # "Vacancy" THEN NotImplemented ELSE PyBool(vac_lt(self, oth.v))
le_method(self, oth) ==
    IF oth.k # "Vacancy" THEN NotImplemented ELSE PyBool(vac_le(self, oth.v))
gt_method(self, oth) ==
    IF oth.k # "Vacancy" THEN NotImplemented ELSE PyBool(vac_gt(self, oth.v))
ge_method(self, oth) ==
    IF oth.k # "Vacancy" THEN NotImplemented ELSE PyBool(vac_ge(self, oth.v))

\* the expression self == oth: when __eq__ answers NotImplemented and oth's
\* own type does not know Vacancy, the interpreter falls back to identity,
\* and oth is another object
py_eq(self, oth) ==
    IF eq_method(self, oth).k = "NotImplemented" THEN FALSE ELSE eq_method(self, oth).v

-----------------------------------------------------------------------------
(* Inputs *)

Ints == (-MaxSalary)..MaxSalary

TitleSamples == {Absent, PyStr(<<"N","o","n","e">>)}
NameSamples ==
    {Absent, PyNone, PyInt(7),
     PyStr(<<" "," ">>),
     PyStr(<<" ","n","u","l","l"," ">>),
     PyStr(<<" ","D","e","v">>)}
UrlSamples == {Absent, PyStr(S_https \o <<"a">>)}
AlternateUrlSamples ==
    {Absent, PyInt(5),
     PyStr(<<" ">>),
     PyStr(<<" ">> \o S_http \o <<"b"," ">>),
     PyStr(<<"f","t","p",":","/","/","x">>)}
SalaryStrings ==
    {<<>>, <<"a","b","c">>, S_inf, <<"N","a","N">>, S_none,
     <<"-","1",".","9">>, <<" ","2"," ">>}
RawSalary ==
    {Absent, PyList, PyInf, PyNaN, PyFloat(19), PyFloat(-19)}
        \cup {PyInt(n) : n \in Ints}
        \cup {PyStr(x) : x \in SalaryStrings}
RawSalaryFew == {Absent} \cup {PyInt(n) : n \in Ints}
SalaryObjs == {PyDict([from |-> f, to |-> t]) : f \in RawSalary, t \in RawSalaryFew}
AddressSamples ==
    {Absent}
        \cup {PyDict([city |-> PyStr(c)]) :
                c \in {<<>>, <<" ","n","u","l","l"," ">>, <<"N","U","L","L">>,
                       <<"M","s","k">>}}

Mapping(title, name, url, alt, salary, sf, st, address) ==
    PyDict([id |-> PyInt(1), title |-> title, name |-> name,
            url |-> url, alternate_url |-> alt,
            salary |-> salary, salary_from |-> sf, salary_to |-> st,
            address |-> address, city |-> Absent])

\* data is one of the sampled mappings.  Either the title, URL and address
\* keys range over their samples (with no salary, or a plain one), or the
\* salary keys range over theirs, nested (live) or flat (saved), next to
\* every URL sample.
IsSampledMapping(d) ==
    \/ \E t \in TitleSamples, n \in NameSamples, u \in UrlSamples,
          a \in AlternateUrlSamples, ad \in AddressSamples,
          s \in {Absent, PyDict([from |-> PyInt(1), to |-> PyFloat(25)])} :
            d = Mapping(t, n, u, a, s, Absent, Absent, ad)
    \/ \E n \in {PyStr(<<" ","n","u","l","l"," ">>), PyStr(<<" ","D","e","v">>)},
          u \in UrlSamples, a \in AlternateUrlSamples,
          ad \in {Absent, PyDict([city |-> PyStr(<<"M","s","k">>)])} :
            \/ \E s \in SalaryObjs : d = Mapping(Absent, n, u, a, s, Absent, Absent, ad)
            \/ \E sf \in RawSalaryFew, st \in RawSalaryFew :
                  d = Mapping(Absent, n, u, a, Absent, sf, st, ad)

NonMappings == {PyNone, PyList, PyStr(<<"x">>)}

-----------------------------------------------------------------------------
(* Idle values of the variables a scenario does not use *)

NoResult == [err |-> "unset", v |-> NoVacancy]
NoDict == PyDict([id |-> Absent])
NoCoerced == <<[err |-> "unset", v |-> 0], [err |-> "unset", v |-> 0]>>
NoCmp == [eq |-> {}, lt |-> {}, le |-> {}, gt |-> {}, ge |-> {}]
Unset == [k |-> "unset", v |-> FALSE]
NoCmpOther == [eq |-> Unset, lt |-> Unset, le |-> Unset, gt |-> Unset, ge |-> Unset,
               equal |-> FALSE]
NoFile == [exists |-> FALSE, header |-> {}, rows |-> <<>>]

NoView == [salary_info |-> <<>>, str |-> <<>>]

RecordIdle ==
    /\ data = PyNone /\ rec = NoResult /\ dict = NoDict /\ rec2 = NoResult
    /\ coerced = NoCoerced /\ view = NoView
LoadIdle ==
    api = <<>> /\ page = 0 /\ vacancies = <<>> /\ outcome = "none" /\ requested = <<>>
OrderIdle ==
    /\ vacA = NoVacancy /\ vacB = NoVacancy /\ vacC = NoVacancy /\ cmp = NoCmp
    /\ other = PyNone /\ cmpOther = NoCmpOther
TextIdle == probText = <<>> /\ probation = PyNone
TopIdle == main_vacancies = <<>> /\ topN = 0 /\ sorted_vacancies = <<>> /\ top_n = <<>>
StoreIdle == kind = "none" /\ file = NoFile /\ batch = <<>> /\ lastOp = "none"

recordVars == <<data, rec, dict, rec2, coerced, view>>
loadVars == <<api, page, vacancies, outcome, requested>>
orderVars == <<vacA, vacB, vacC, cmp, other, cmpOther>>
textVars == <<probText, probation>>
topVars == <<main_vacancies, topN, sorted_vacancies, top_n>>
storeVars == <<kind, file, batch, lastOp>>

-----------------------------------------------------------------------------
(* Scenario 1: one raw input is normalized, serialized and reloaded *)

Init ==
    /\ pc = "input"
    /\ (IsSampledMapping(data) \/ data \in NonMappings)
    /\ rec = NoResult /\ dict = NoDict /\ rec2 = NoResult /\ coerced = NoCoerced
    /\ view = NoView
    /\ OrderIdle /\ StoreIdle /\ LoadIdle /\ TextIdle /\ TopIdle

\* r = Vacancy(data); coerced keeps what the two _normalize_salary_value
\* calls of the constructor did, when the constructor reaches them
Construct ==
    /\ pc = "input"
    /\ rec' = Vacancy(data)
    /\ coerced' =
         IF IsDict(data) /\ UrlOf(data.v).err = "none"
         THEN <<normalize_salary_value(SalaryFromRaw(data.v)),
                normalize_salary_value(SalaryToRaw(data.v))>>
         ELSE coerced
    /\ pc' = IF rec'.err = "none" THEN "built" ELSE "failed"
    /\ UNCHANGED <<data, dict, rec2, view, orderVars, storeVars, loadVars, textVars, topVars>>

\* d = r.to_dict()
ToDict ==
    /\ pc = "built"
    /\ dict' = to_dict(rec.v)
    /\ pc' = "dumped"
    /\ UNCHANGED <<data, rec, rec2, coerced, view, orderVars, storeVars, loadVars, textVars, topVars>>

\* r2 = Vacancy(d)
Reload ==
    /\ pc = "dumped"
    /\ rec2' = Vacancy(dict)
    /\ pc' = "reloaded"
    /\ UNCHANGED <<data, rec, dict, coerced, view, orderVars, storeVars, loadVars, textVars, topVars>>

Next == Construct \/ ToDict \/ Reload

Spec == Init /\ [][Next]_vars

-----------------------------------------------------------------------------
(* Scenario 2: a caller holds three records and compares them *)

Slots == {"A", "B", "C"}

\* records built from live-shaped items that differ in name and salary
OrderSamples ==
    {Vacancy(Mapping(Absent, PyStr(n), Absent, Absent,
                     PyDict([from |-> PyInt(f), to |-> PyInt(t)]),
                     Absent, Absent, Absent)).v :
        n \in {<<"D","e","v">>, <<"Q","A">>}, f \in {0, MaxSalary},
        t \in {-MaxSalary, 0, MaxSalary}}

\* values that are not Vacancy objects; the last has the fields of one
Others ==
    {PyNone, PyInt(0), PyStr(<<"n","o","t"," ","a"," ","v","a","c","a","n","c","y">>),
     PyDict([salary_from |-> PyInt(0), salary_to |-> PyInt(0)])}

InitOrder ==
    /\ pc = "held"
    /\ vacA \in OrderSamples /\ vacB \in OrderSamples /\ vacC \in OrderSamples
    /\ cmp = NoCmp
    /\ other \in Others \cup {PyVacancy(vacB)}
    /\ cmpOther = NoCmpOther
    /\ RecordIdle /\ StoreIdle /\ LoadIdle /\ TextIdle /\ TopIdle

Held(x) == CASE x = "A" -> vacA [] x = "B" -> vacB [] OTHER -> vacC

\* x == y, x < y, x <= y, x > y, x >= y for every pair of the three records
Compare ==
    /\ pc = "held"
    /\ cmp' = [eq |-> {p \in Slots \X Slots : vac_eq(Held(p[1]), Held(p[2]))},
               lt |-> {p \in Slots \X Slots : vac_lt(Held(p[1]), Held(p[2]))},
               le |-> {p \in Slots \X Slots : vac_le(Held(p[1]), Held(p[2]))},
               gt |-> {p \in Slots \X Slots : vac_gt(Held(p[1]), Held(p[2]))},
               ge |-> {p \in Slots \X Slots : vac_ge(Held(p[1]), Held(p[2]))}]
    /\ pc' = "compared"
    /\ UNCHANGED <<vacA, vacB, vacC, other, cmpOther, recordVars, storeVars, loadVars, textVars, topVars>>

\* vacA.__eq__(other), ..., vacA.__ge__(other), and vacA == other
CompareOther ==
    /\ cmpOther = NoCmpOther /\ pc \in {"held", "compared"}
    /\ cmpOther' = [eq |-> eq_method(vacA, other), lt |-> lt_method(vacA, other),
                    le |-> le_method(vacA, other), gt |-> gt_method(vacA, other),
                    ge |-> ge_method(vacA, other), equal |-> py_eq(vacA, other)]
    /\ UNCHANGED <<pc, vacA, vacB, vacC, cmp, other, recordVars, storeVars, loadVars, textVars, topVars>>

NextOrder == Compare \/ CompareOther

SpecOrder == InitOrder /\ [][NextOrder]_vars

-----------------------------------------------------------------------------
(* src/src/fileworker.py.  The file is [exists, header, rows]: rows are    *)
(* the records a load_data() call returns, header the CSV column names     *)
(* (empty for JSON and for a zero-byte file).  A JSON file holds the       *)
(* mappings as saved; a CSV file holds every column as a str.              *)

Item(id, title) == PyDict([id |-> id, title |-> PyStr(title)])

Items ==
    {Item(Absent, <<"a">>), Item(PyStr(<<>>), <<"a">>), Item(PyStr(<<"2">>), <<"a">>),
     Item(PyStr(<<"1">>), <<"a">>), Item(PyStr(<<"1">>), <<"b">>)}

\* what a caller may pass in a batch: mappings, and one value that is none
Elements == Items \cup {PyNone}

Batches ==
    {<<>>} \cup {<<x>> : x \in Elements} \cup {<<x, y>> : x \in Elements, y \in Elements}

Keys(item) == {f \in DOMAIN item.v : item.v[f].k # "absent"}

RECURSIVE Filter(_, _)
\* [x for x in xs if keep[x]]
Filter(xs, keep) ==
    IF xs = <<>> THEN <<>>
    ELSE (IF Head(xs) \in keep THEN <<Head(xs)>> ELSE <<>>) \o Filter(Tail(xs), keep)

Range(xs) == {xs[i] : i \in DOMAIN xs}

\* unique_new without the membership test
unique_new_unfiltered(existing_data, new_data) == new_data

\* existing_ids and unique_new (lines 91-92, 165-170)
unique_new(existing_data, new_data) ==
    LET existing_ids ==
            {Get(item.v.id) : item \in {x \in Range(existing_data) : Truthy(Get(x.v.id))}}
    IN  Filter(new_data, {item \in Range(new_data) : Get(item.v.id) \notin existing_ids})

\* csv.DictWriter then csv.DictReader: every column of the header becomes a
\* str, None and a missing key become ""
CsvCell(val) == IF val.k \in {"absent", "none"} THEN PyStr(<<>>) ELSE PyStr(str(val))
CsvRow(item, header) ==
    PyDict([f \in DOMAIN item.v |-> IF f \in header THEN CsvCell(item.v[f]) ELSE Absent])
CsvHeader(rows) == UNION {Keys(rows[i]) : i \in DOMAIN rows}
CsvFile(rows) ==
    [exists |-> TRUE, header |-> CsvHeader(rows),
     rows |-> [i \in DOMAIN rows |-> CsvRow(rows[i], CsvHeader(rows))]]

JsonFile(rows) == [exists |-> TRUE, header |-> {}, rows |-> rows]

\* load_data(): [] when the file is missing, unreadable or holds no rows
load_data(f) == IF f.exists THEN f.rows ELSE <<>>

AllMappings(new_data) == \A i \in DOMAIN new_data : IsDict(new_data[i])

\* JSONFileWorker.save_data(data): the file afterwards
json_save_data(f, new_data) ==
    JsonFile(load_data(f) \o unique_new(load_data(f), new_data))

\* CSVFileWorker.save_data(data): the file afterwards
csv_save_data(f, new_data) ==
    LET combined_data ==
            IF f.exists THEN load_data(f) \o unique_new(load_data(f), new_data)
            ELSE new_data
    IN  IF new_data = <<>> \/ combined_data = <<>> THEN f ELSE CsvFile(combined_data)

\* CSVFileWorker.clear_file(): the header row survives when rows were stored
csv_clear_file(f) ==
    IF f.exists /\ load_data(f) # <<>>
    THEN [exists |-> TRUE, header |-> f.header, rows |-> <<>>]
    ELSE [exists |-> TRUE, header |-> {}, rows |-> <<>>]

\* the condition of remove_data: lambda x: x.get("id") == id
Kept(rows, id) == Filter(rows, {item \in Range(rows) : Get(item.v.id) # PyStr(id)})

-----------------------------------------------------------------------------
(* Scenario 3: save, remove and clear on one store *)

InitStore ==
    /\ pc = "store"
    /\ kind \in {"json", "csv"}
    /\ file \in {NoFile, [exists |-> TRUE, header |-> {}, rows |-> <<>>]}
    /\ batch = <<>>
    /\ lastOp = "none"
    /\ RecordIdle /\ OrderIdle /\ LoadIdle /\ TextIdle /\ TopIdle

RECURSIVE MappingsBefore(_)
\* the mappings of a batch that precede its first element that is none
MappingsBefore(xs) ==
    IF xs = <<>> \/ ~IsDict(Head(xs)) THEN <<>> ELSE <<Head(xs)>> \o MappingsBefore(Tail(xs))

SaveRejectedAfterWriting ==
    /\ pc = "store"
    /\ \E new_data \in Batches :
         /\ ~AllMappings(new_data)
         /\ batch' = new_data
         /\ file' = IF kind = "json" THEN json_save_data(file, MappingsBefore(new_data))
                    ELSE csv_save_data(file, MappingsBefore(new_data))
    /\ lastOp' = "save_error"
    /\ UNCHANGED <<pc, kind, recordVars, orderVars, loadVars, textVars, topVars>>

\* save_data(data) with an element that is no mapping: ValueError, before
\* the file is touched (CSV returns first on an empty batch)
SaveRejected ==
    /\ pc = "store"
    /\ \E new_data \in Batches :
         /\ ~AllMappings(new_data)
         /\ batch' = new_data
    /\ lastOp' = "save_error"
    /\ UNCHANGED <<pc, kind, file, recordVars, orderVars, loadVars, textVars, topVars>>

\* JSONFileWorker.save_data(data)
JsonSave ==
    /\ pc = "store" /\ kind = "json"
    /\ \E new_data \in Batches :
         /\ AllMappings(new_data)
         /\ Len(json_save_data(file, new_data).rows) <= MaxStore
         /\ file' = json_save_data(file, new_data)
         /\ batch' = new_data
    /\ lastOp' = "save"
    /\ UNCHANGED <<pc, kind, recordVars, orderVars, loadVars, textVars, topVars>>

\* CSVFileWorker.save_data(data)
CsvSave ==
    /\ pc = "store" /\ kind = "csv"
    /\ \E new_data \in Batches :
         /\ AllMappings(new_data)
         /\ Len(csv_save_data(file, new_data).rows) <= MaxStore
         /\ file' = csv_save_data(file, new_data)
         /\ batch' = new_data
    /\ lastOp' = "save"
    /\ UNCHANGED <<pc, kind, recordVars, orderVars, loadVars, textVars, topVars>>

\* JSONFileWorker.remove_data(condition)
JsonRemove ==
    /\ pc = "store" /\ kind = "json"
    /\ \E id \in {<<"1">>, <<"2">>} : file' = JsonFile(Kept(load_data(file), id))
    /\ lastOp' = "remove"
    /\ UNCHANGED <<pc, kind, batch, recordVars, orderVars, loadVars, textVars, topVars>>

\* CSVFileWorker.remove_data(condition)
CsvRemove ==
    /\ pc = "store" /\ kind = "csv"
    /\ \E id \in {<<"1">>, <<"2">>} :
         file' = IF Kept(load_data(file), id) = <<>> THEN csv_clear_file(file)
                 ELSE CsvFile(Kept(load_data(file), id))
    /\ lastOp' = "remove"
    /\ UNCHANGED <<pc, kind, batch, recordVars, orderVars, loadVars, textVars, topVars>>

\* JSONFileWorker.clear_file()
JsonClear ==
    /\ pc = "store" /\ kind = "json"
    /\ file' = JsonFile(<<>>)
    /\ lastOp' = "clear"
    /\ UNCHANGED <<pc, kind, batch, recordVars, orderVars, loadVars, textVars, topVars>>

\* CSVFileWorker.clear_file()
CsvClear ==
    /\ pc = "store" /\ kind = "csv"
    /\ file' = csv_clear_file(file)
    /\ lastOp' = "clear"
    /\ UNCHANGED <<pc, kind, batch, recordVars, orderVars, loadVars, textVars, topVars>>

NextStore ==
    \/ SaveRejected
    \/ JsonSave \/ JsonRemove \/ JsonClear
    \/ CsvSave \/ CsvRemove \/ CsvClear

SpecStore == InitStore /\ [][NextStore]_vars

-----------------------------------------------------------------------------
(* Scenario 4: inputs that exercise the remaining fields are normalized,   *)
(* described (salary_info, str), serialized and reloaded                   *)

\* base with the keys of over set to over's values
With(base, over) ==
    [key \in DOMAIN base \cup DOMAIN over |->
        IF key \in DOMAIN over THEN over[key] ELSE base[key]]

\* a live item and a saved record with nothing but a title and a URL
LiveBase == [name |-> PyStr(<<"D","e","v">>), alternate_url |-> PyStr(<<"h","t","t","p","s",":","/","/","a">>)]
SavedBase == [title |-> PyStr(<<"D","e","v">>), url |-> PyStr(<<"h","t","t","p","s",":","/","/","a">>)]

IdSamples ==
    {Absent, PyNone, PyInt(0), PyInt(7), PyStr(<<>>), PyStr(<<"4","2">>),
     PyBool(FALSE), PyBool(TRUE)}

EmployerNames ==
    {Absent, PyNone, PyStr(<<>>), PyStr(<<"C","o">>), PyStr(<<"N","U","L","L">>), PyStr(<<"N","o","t"," ","S","p","e","c","i","f","i","e","d">>)}
EmployerUrls ==
    {Absent, PyNone, PyInt(5), PyStr(<<"h","t","t","p","s",":","/","/","e">>), PyStr(<<"f","t","p",":","/","/","e">>), PyStr(<<"N","o","n","e">>)}

\* salary bounds that exercise the thousands separator
Amounts == {-MaxSalary, 0, MaxSalary, 999, 1000, 100000, 1234567}
CurrencySamples == {Absent, PyNone, PyInt(0), PyStr(<<"U","S","D">>), PyStr(<<"N","o","n","e">>)}
GrossSamples ==
    {Absent, PyBool(TRUE), PyBool(FALSE), PyInt(0), PyInt(1), PyStr(<<>>),
     PyStr(<<"Y","e","s"," ">>), PyStr(<<" ","T","R","U","E">>), PyStr(<<"n","o">>)}
CitySamples == {Absent, PyStr(<<>>), PyStr(NotSpecified), PyStr(<<"M","o","s","k","v","a">>)}

RoleElements ==
    {PyNone, PyInt(3), PyStr(<<"D","e","v">>), PyStr(<<"{","'","n","a","m","e","'",":"," ","'","x","'","}">>), PyStr(<<"{","'","i","d","'",":"," ","'","1","'","}">>),
     PyStr(<<"{","'","n","a","m","e","'",":"," ","N","o","n","e","}">>), PyStr(<<"{","\"","n","a","m","e","\"",":"," ","5","}">>),
     PyDict([name |-> PyStr(<<"Q","A">>)]), PyDict([name |-> PyInt(7)]),
     PyDict([name |-> PyNone]), PyDict([name |-> Absent])}
RolesSamples ==
    {Absent, PyNone, PyInt(5), PyStr(<<"[","'","a","'",","," ","'","b","'","]">>), PyStr(<<"i","n","v","a","l","i","d"," ","s","t","r","i","n","g">>), PyStr(<<"5">>),
     PyStr(<<"{","'","n","a","m","e","'",":"," ","'","x","'","}">>), PyStr(<<"[","]">>), PyStr(<<"[","{","'","n","a","m","e","'",":"," ","'","x","'","}",","," ","'","y","'",",","]">>)}
        \cup {PyListOf(<<>>)} \cup {PyListOf(<<x>>) : x \in RoleElements}
        \cup {PyListOf(<<x, y>>) : x \in RoleElements, y \in RoleElements}

ExperienceSamples ==
    {Absent, PyNone, PyInt(3), PyList, PyStr(<<"3","-","5"," ","l","e","t">>), PyStr(<<"n","o","n","e">>),
     PyDict([name |-> Absent]), PyDict([name |-> PyNone]),
     PyDict([name |-> PyStr(<<"1","-","3"," ","g","o","d","a">>)])}

\* the two sources of each field, holding different values
NestedSalary ==
    PyDict([from |-> PyInt(2), to |-> PyInt(4), currency |-> PyStr(<<"U","S","D">>),
            gross |-> PyBool(FALSE)])
NestedAddress ==
    PyDict([city |-> PyStr(<<"A">>), street |-> PyStr(<<"S">>), building |-> PyStr(<<"1">>)])
NestedSnippet ==
    PyDict([responsibility |-> PyStr(<<"<","b",">","R","<","/","b",">"," ">>), requirement |-> PyStr(<<"Q">>)])
NestedEmployer == PyDict([name |-> PyStr(<<"E">>), url |-> PyStr(<<"h","t","t","p","s",":","/","/","e">>)])
FlatSalary ==
    [salary_from |-> PyInt(3), salary_to |-> PyInt(5), currency |-> PyStr(<<"E","U","R">>),
     gross |-> PyBool(TRUE)]
FlatAddress == [city |-> PyStr(<<"B">>), street |-> PyStr(<<"Z">>), building |-> PyStr(<<"2">>)]
FlatSnippet == [responsibilities |-> PyStr(<<"X">>), requirements |-> PyStr(<<"<","i",">","Y">>)]
FlatEmployer == [employer_name |-> PyStr(<<"F">>), employer_url |-> PyStr(<<"h","t","t","p","s",":","/","/","f">>)]
NoKeys == [id |-> Absent]

\* a mapping that may hold the live and the saved keys of a field side by side
Mixed(title, name, url, alt, salary, fsalary, address, faddress, snippet, fsnippet,
      employer, femployer) ==
    PyDict(With(With(With(With(
        [title |-> title, name |-> name, url |-> url, alternate_url |-> alt,
         salary |-> salary, address |-> address, snippet |-> snippet,
         employer |-> employer],
        fsalary), faddress), fsnippet), femployer))

\* data is one of the sampled inputs of this scenario
IsFieldSample(d) ==
    \/ \E i \in IdSamples : d = PyDict(With(LiveBase, [id |-> i]))
    \/ \E n \in EmployerNames, u \in EmployerUrls, a \in {Absent, PyStr(<<"h","t","t","p","s",":","/","/","h","h","/","e">>)},
          flat \in {NoKeys, FlatEmployer} :
            d = PyDict(With(With(LiveBase, flat),
                            [employer |-> PyDict([name |-> n, url |-> u,
                                                  alternate_url |-> a])]))
    \/ \E n \in EmployerNames, u \in EmployerUrls :
            d = PyDict(With(SavedBase, [employer_name |-> n, employer_url |-> u]))
    \/ \E f \in Amounts, t \in Amounts, c \in {Absent, PyStr(<<"U","S","D">>)},
          g \in {Absent, PyBool(FALSE)},
          ad \in {Absent, PyDict([city |-> PyStr(<<"M","o","s","k","v","a">>)])} :
            d = PyDict(With(LiveBase,
                    [salary |-> PyDict([from |-> PyInt(f), to |-> PyInt(t),
                                        currency |-> c, gross |-> g]),
                     address |-> ad]))
    \/ \E f \in {0, 100000}, t \in {0, 100000}, c \in CurrencySamples,
          g \in GrossSamples, ci \in CitySamples :
            d = PyDict(With(LiveBase,
                    [salary |-> PyDict([from |-> PyInt(f), to |-> PyInt(t),
                                        currency |-> c, gross |-> g]),
                     city |-> ci]))
    \/ \E r \in RolesSamples : d = PyDict(With(LiveBase, [professional_roles |-> r]))
    \/ \E e \in ExperienceSamples, base \in {LiveBase, SavedBase} :
            d = PyDict(With(base, [experience |-> e]))
    \/ \E t \in {Absent, PyStr(<<"T">>)}, n \in {Absent, PyStr(<<"N">>)},
          u \in {Absent, PyStr(<<"h","t","t","p","s",":","/","/","u">>)}, a \in {Absent, PyStr(<<"h","t","t","p","s",":","/","/","v">>)},
          x \in {Absent, NestedSalary}, fx \in {NoKeys, FlatSalary},
          y \in {Absent, NestedAddress}, fy \in {NoKeys, FlatAddress} :
            d = Mixed(t, n, u, a, x, fx, y, fy, NestedSnippet, FlatSnippet,
                      NestedEmployer, FlatEmployer)
    \/ \E t \in {Absent, PyStr(<<"T">>)}, n \in {Absent, PyStr(<<"N">>)},
          u \in {Absent, PyStr(<<"h","t","t","p","s",":","/","/","u">>)}, a \in {Absent, PyStr(<<"h","t","t","p","s",":","/","/","v">>)},
          x \in {Absent, NestedSnippet}, fx \in {NoKeys, FlatSnippet},
          y \in {Absent, NestedEmployer}, fy \in {NoKeys, FlatEmployer} :
            d = Mixed(t, n, u, a, NestedSalary, FlatSalary, NestedAddress, FlatAddress,
                      x, fx, y, fy)

InitFields ==
    /\ pc = "input"
    /\ IsFieldSample(data)
    /\ rec = NoResult /\ dict = NoDict /\ rec2 = NoResult /\ coerced = NoCoerced
    /\ view = NoView
    /\ OrderIdle /\ StoreIdle /\ LoadIdle /\ TextIdle /\ TopIdle

\* rec.v.salary_info and str(rec.v) are read
Describe ==
    /\ pc = "built" /\ view = NoView
    /\ view' = [salary_info |-> salary_info(rec.v), str |-> vac_str(rec.v)]
    /\ UNCHANGED <<pc, data, rec, dict, rec2, coerced, orderVars, storeVars, loadVars, textVars, topVars>>

NextFields == Construct \/ Describe \/ ToDict \/ Reload

SpecFields == InitFields /\ [][NextFields]_vars

-----------------------------------------------------------------------------
(* src/src/hh_api.py: HeadHunterAPI.load_vacancies.  A response is         *)
(* [status, items, pages]: status "ok" with the decoded payload's items    *)
(* and pages entries, or "error" when the request raises a requests error. *)

MaxPagesMore == 20 + 1

\* max_pages (line 64)
MaxPages == 20

Page(items, pages) == [status |-> "ok", items |-> items, pages |-> pages]
ErrorResponse == [status |-> "error", items |-> Absent, pages |-> Absent]

\* the answer to the request for page index p; past the scripted answers
\* the API goes on answering like the last of them
ResponseAt(p) == IF p < Len(api) THEN api[p + 1] ELSE api[Len(api)]

\* the exceptions the item loop catches (line 87)
Caught == {"ValueError", "TypeError", "KeyError"}

RECURSIVE Collect(_, _)
RECURSIVE Appended(_, _, _)
\* the item loop (lines 77-89) over items, acc the records appended so
\* far: [err, acc], err the exception that leaves the loop
Collect(items, acc) ==
    IF items = <<>> THEN [err |-> "none", acc |-> acc]
    ELSE IF ~IsDict(Head(items)) THEN Collect(Tail(items), acc)
    ELSE Appended(Vacancy(Head(items)), Tail(items), acc)

\* the rest of one pass (lines 82-89) once the constructor has answered with
\* vacancy: the record is appended, a caught exception passes the item over,
\* any other exception leaves the loop
Appended(vacancy, rest, acc) ==
    IF vacancy.err = "none" THEN Collect(rest, Append(acc, vacancy.v))
    ELSE IF vacancy.err \in Caught THEN Collect(rest, acc)
    ELSE [err |-> vacancy.err, acc |-> acc]

-----------------------------------------------------------------------------
(* Scenario 5: one load_vacancies call against a scripted API *)

GoodA == PyDict([id |-> PyInt(1), name |-> PyStr(<<"D","e","v">>), alternate_url |-> PyStr(<<"h","t","t","p","s",":","/","/","a">>)])
GoodB == PyDict([id |-> PyInt(2), name |-> PyStr(<<"Q","A">>), alternate_url |-> PyStr(<<>>)])
BadUrl == PyDict([id |-> PyInt(3), name |-> PyStr(<<"O","p","s">>), alternate_url |-> PyStr(<<"f","t","p",":","/","/","x">>)])
NonStrUrl == PyDict([id |-> PyInt(4), name |-> PyStr(<<"P","M">>), alternate_url |-> PyInt(5)])
InfSalary ==
    PyDict([id |-> PyInt(5), name |-> PyStr(<<"C","T","O">>), alternate_url |-> PyStr(<<>>),
            salary |-> PyDict([from |-> PyStr(S_inf)])])

RawItems == {GoodA, GoodB, PyNone, BadUrl, NonStrUrl, InfSalary}
ItemLists ==
    {<<x>> : x \in RawItems} \cup {<<x, y>> : x \in RawItems, y \in RawItems}
        \cup {<<x, y, z>> : x \in RawItems, y \in RawItems, z \in RawItems}

FirstResponses ==
    {ErrorResponse, Page(PyListOf(<<>>), PyInt(1)), Page(PyListOf(<<GoodA>>), PyNone),
     Page(PyListOf(<<GoodA>>), PyInt(MaxPages + 5))}
        \cup {Page(PyListOf(xs), pg) : xs \in ItemLists, pg \in {Absent, PyInt(1), PyInt(2)}}
NextResponses ==
    {ErrorResponse, Page(PyListOf(<<>>), PyInt(2)), Page(PyListOf(<<GoodB>>), PyInt(2)),
     Page(PyListOf(<<NonStrUrl, GoodB>>), Absent), Page(PyListOf(<<GoodB>>), Absent),
     Page(PyListOf(<<>>), Absent)}

InitLoad ==
    /\ pc = "load"
    /\ \E first \in FirstResponses :
         \/ api = <<first>>
         \/ \E second \in NextResponses : api = <<first, second>>
    /\ page = 0
    /\ vacancies \in {<<>>, <<Vacancy(GoodB).v>>}
    /\ outcome = "idle"
    /\ requested = <<>>
    /\ RecordIdle /\ OrderIdle /\ StoreIdle /\ TextIdle /\ TopIdle

StartLoadKeeps ==
    /\ pc = "load" /\ outcome = "idle"
    /\ page' = 0
    /\ outcome' = "running"
    /\ requested' = <<>>
    /\ UNCHANGED <<pc, api, vacancies, recordVars, orderVars, storeVars, textVars, topVars>>

\* load_vacancies(keyword) is entered (lines 61-64)
StartLoad ==
    /\ pc = "load" /\ outcome = "idle"
    /\ vacancies' = <<>>
    /\ page' = 0
    /\ outcome' = "running"
    /\ requested' = <<>>
    /\ UNCHANGED <<pc, api, recordVars, orderVars, storeVars, textVars, topVars>>

\* one pass of the while loop (lines 66-106) and the loop test that follows
LoadPage ==
    /\ pc = "load" /\ outcome = "running" /\ page < MaxPages
    /\ requested' = Append(requested, page)
    /\ \E response \in {ResponseAt(page)} :
       \E items \in {GetOr(response.items, PyListOf(<<>>))} :
         IF response.status = "error" \/ ~Truthy(items)
         THEN outcome' = "returned" /\ UNCHANGED <<page, vacancies>>
         ELSE \E got \in {Collect(items.v, vacancies)} :
              \E pages \in {GetOr(response.pages, PyInt(0))} :
                /\ vacancies' = got.acc
                /\ IF got.err # "none" THEN outcome' = got.err /\ UNCHANGED page
                   ELSE IF pages.k # "int" THEN outcome' = "TypeError" /\ UNCHANGED page
                   ELSE IF page >= pages.v - 1 THEN outcome' = "returned" /\ UNCHANGED page
                   ELSE /\ page' = page + 1
                        /\ outcome' = IF page + 1 < MaxPages THEN "running" ELSE "returned"
    /\ UNCHANGED <<pc, api, recordVars, orderVars, storeVars, textVars, topVars>>

NextLoad == StartLoad \/ LoadPage

SpecLoad == InitLoad /\ [][NextLoad]_vars

\* the same call against the scripts whose first page holds at most one
\* item, and none with a salary
InitLoadShort ==
    /\ InitLoad
    /\ Len(GetOr(api[1].items, PyListOf(<<>>)).v) <= 1
    /\ GetOr(api[1].items, PyListOf(<<>>)).v # <<InfSalary>>

\* the call, once made, runs on: nothing in it waits for another party
SpecLoadFair == InitLoadShort /\ [][NextLoad]_vars /\ WF_vars(NextLoad)

-----------------------------------------------------------------------------
(* src/src/services.py: extract_probation_period.  The unit stems and the  *)
(* phrases returned are transliterated; the soft sign is written j.        *)

\* the alternatives of the pattern's second group, in its order (line 74)
UnitStems ==
    <<(<<"m","e","s","y","a","t","s">>), (<<"n","e","d","e","l">>), (<<"d","e","n","j">>),
      (<<"g","o","d">>)>>

NoMatch == [ok |-> FALSE, count |-> <<>>, unit |-> <<>>]

\* the pattern (\d+)\s*(stem)a? tried at position i with re.IGNORECASE
\* (lines 74-75): group 1 and group 2 as written in the text.  The digits
\* and the whitespace are taken greedily; giving one back never helps, since
\* what follows a shorter run is a digit or a space, not a stem.
MatchAt(s, i) ==
    IF i > Len(s) \/ ~IsDigit(s[i]) THEN NoMatch
    ELSE LET k == SkipSpaces(s, ScanDigits(s, i))
             found == {u \in DOMAIN UnitStems : StartsWithAt(lower(s), k, UnitStems[u])}
         IN  IF found = {} THEN NoMatch
             ELSE [ok |-> TRUE, count |-> SubSeq(s, i, ScanDigits(s, i) - 1),
                   unit |-> SubSeq(s, k, k + Len(UnitStems[CHOOSE u \in found : TRUE]) - 1)]

RECURSIVE Search(_, _)
\* re.search: the match at the leftmost position from i on
Search(s, i) ==
    IF i > Len(s) THEN NoMatch
    ELSE IF MatchAt(s, i).ok THEN MatchAt(s, i)
    ELSE Search(s, i + 1)

\* the branches on the unit (lines 76-88), group 2 compared as written
Phrase(count, unit) ==
    IF unit = UnitStems[1] THEN PyStr(count \o <<" ","m","e","s","y","a","t","s","a">>)
    ELSE IF unit = UnitStems[2] THEN PyStr(count \o <<" ","n","e","d","e","l","i">>)
    ELSE IF unit = UnitStems[3] THEN PyStr(count \o <<" ","d","n","y","a">>)
    ELSE IF unit = UnitStems[4] THEN PyStr(count \o <<" ","g","o","d","a">>)
    ELSE PyNone

\* extract_probation_period(text) (lines 62-88): a str or None
extract_probation_period(s) == Phrase(Search(s, 1).count, Search(s, 1).unit)

-----------------------------------------------------------------------------
(* Scenario 6: extract_probation_period is applied to one text *)

UpperChar(c) ==
    IF \E i \in DOMAIN Lower : Lower[i] = c
    THEN Upper[CHOOSE i \in DOMAIN Lower : Lower[i] = c]
    ELSE c
upper(s) == [i \in DOMAIN s |-> UpperChar(s[i])]
capitalize(s) == IF s = <<>> THEN s ELSE <<UpperChar(Head(s))>> \o Tail(s)

\* a unit stem in lower, upper and mixed case, and a word that is no unit
UnitWords ==
    UNION {{UnitStems[u], upper(UnitStems[u]), capitalize(UnitStems[u])} :
              u \in DOMAIN UnitStems}
        \cup {<<"d","n","e","y">>}
TextPrefixes == {<<>>, <<"x"," ">>, <<"5"," ","x"," ">>}
TextCounts == {<<"3">>, <<"1","2">>}
TextGaps == {<<>>, <<" ">>}
TextTails == {<<>>, <<"a">>, <<" ","2"," ","g","o","d">>}
Texts ==
    {p \o c \o g \o w \o t :
        p \in TextPrefixes, c \in TextCounts, g \in TextGaps, w \in UnitWords,
        t \in TextTails}
      \cup {<<>>, <<"x">>}

InitText ==
    /\ pc = "text"
    /\ probText \in Texts
    /\ probation = PyNone
    /\ RecordIdle /\ OrderIdle /\ StoreIdle /\ LoadIdle /\ TopIdle

\* probation = extract_probation_period(text)
Extract ==
    /\ pc = "text"
    /\ probation' = extract_probation_period(probText)
    /\ pc' = "extracted"
    /\ UNCHANGED <<probText, recordVars, orderVars, storeVars, loadVars, topVars>>

NextText == Extract

SpecText == InitText /\ [][NextText]_vars

-----------------------------------------------------------------------------
(* src/main.py: the "top N by salary" view (lines 102-117) *)

RECURSIVE InsertBeforeEqual(_, _)
InsertBeforeEqual(x, ys) ==
    IF ys = <<>> THEN <<x>>
    ELSE IF average_salary(Head(ys)) > average_salary(x)
         THEN <<Head(ys)>> \o InsertBeforeEqual(x, Tail(ys))
         ELSE <<x>> \o ys

RECURSIVE InsertDesc(_, _)
\* x placed into ys, which is in descending key order: after every element
\* whose key is at least x's, so that equal keys stay in the order they came
InsertDesc(x, ys) ==
    IF ys = <<>> THEN <<x>>
    ELSE IF average_salary(Head(ys)) >= average_salary(x)
         THEN <<Head(ys)>> \o InsertDesc(x, Tail(ys))
         ELSE <<x>> \o ys

RECURSIVE sorted_desc(_)
\* sorted(vacancies, key=lambda v: v.average_salary(), reverse=True)
\* (line 116): a new list, stable also under reverse=True
sorted_desc(xs) ==
    IF xs = <<>> THEN <<>>
    ELSE InsertDesc(xs[Len(xs)], sorted_desc(SubSeq(xs, 1, Len(xs) - 1)))

\* sorted_vacancies[:n] (line 117)
first_n(xs, k) == SubSeq(xs, 1, IF k < Len(xs) THEN k ELSE Len(xs))

-----------------------------------------------------------------------------
(* Scenario 7: the user asks for the top N of the records read from the    *)
(* store                                                                   *)

MaxListed == 3

\* records that differ in title and in salary, several with equal averages
TopSamples ==
    {Vacancy(Mapping(Absent, PyStr(t), Absent, Absent,
                     PyDict([from |-> PyInt(f), to |-> PyInt(f)]),
                     Absent, Absent, Absent)).v :
        t \in {<<"D","e","v">>, <<"Q","A">>, <<"P","M">>}, f \in {0, 1, 2}}

RECURSIVE Lists(_, _)
\* the lists of at most k elements of S
Lists(S, k) ==
    IF k = 0 THEN {<<>>}
    ELSE Lists(S, k - 1) \cup {Append(xs, x) : xs \in Lists(S, k - 1), x \in S}

InitTop ==
    /\ pc = "menu"
    /\ main_vacancies \in Lists(TopSamples, MaxListed)
    /\ topN \in 1..(MaxListed + 1)
    /\ sorted_vacancies = <<>> /\ top_n = <<>>
    /\ RecordIdle /\ OrderIdle /\ StoreIdle /\ LoadIdle /\ TextIdle

\* view_choice == "2" (lines 102-117), n > 0 by the input loop (lines 104-113)
ShowTop ==
    /\ pc = "menu"
    /\ sorted_vacancies' = sorted_desc(main_vacancies)
    /\ top_n' = first_n(sorted_vacancies', topN)
    /\ pc' = "shown"
    /\ UNCHANGED <<main_vacancies, topN, recordVars, orderVars, storeVars, loadVars, textVars>>

NextTop == ShowTop

SpecTop == InitTop /\ [][NextTop]_vars

-----------------------------------------------------------------------------
(* Claims about the record normalizer (scenario 1) *)

\* the value the constructor takes as "the URL field": url, else alternate_url
UrlField(d) == PyOr(Get(d.v.url), Get(d.v.alternate_url))
\* absent, empty or blank
UrlFieldEmpty(d) ==
    ~Truthy(UrlField(d)) \/ (IsStr(UrlField(d)) /\ strip(UrlField(d).v) = <<>>)
UrlFieldWellFormed(d) ==
    IsStr(UrlField(d)) /\ MatchesHttp(strip(UrlField(d).v))

\* C1 (as claimed): construction fails exactly when the input is not a
\* mapping (TypeError) or its URL field is non-empty and fails the http(s)
\* scheme check; for every other mapping it succeeds whatever the other
\* fields hold.
C1_FailsOnlyOnTypeOrUrl ==
    pc # "input" =>
        /\ (~IsDict(data) => rec.err = "TypeError")
        /\ (IsDict(data) =>
              (rec.err # "none" <=> ~(UrlFieldEmpty(data) \/ UrlFieldWellFormed(data))))

IsBlank(s) == \A i \in DOMAIN s : IsSpace(s[i])

\* the title/name value the constructor picks
TitleRaw(d) == PyOr(Get(d.v.title), Get(d.v.name))
TitleMissingOrPlaceholder(d) ==
    \/ TitleRaw(d).k = "none"
    \/ (IsStr(TitleRaw(d)) /\
          (IsBlank(TitleRaw(d).v) \/ lower(TitleRaw(d).v) \in {S_none, S_null}))

TitleRule(d, r) ==
    r.err = "none" =>
        /\ r.v.title # <<>>
        /\ ~IsBlank(r.v.title)
        /\ (TitleMissingOrPlaceholder(d) => r.v.title = TitlePlaceholder)
        /\ (~TitleMissingOrPlaceholder(d) =>
              /\ r.v.title = strip(str(TitleRaw(d)))
              /\ ~IsSpace(Head(r.v.title))
              /\ ~IsSpace(r.v.title[Len(r.v.title)]))

\* C2: every successfully constructed Vacancy has a title that is neither
\* empty nor whitespace-only; a missing, empty, blank or placeholder-like
\* title/name gives the fixed placeholder and any other title is stored
\* trimmed.  Checked on the first construction and on the reload of the
\* saved mapping.
C2_TitleNeverBlank ==
    /\ (pc # "input" /\ IsDict(data) => TitleRule(data, rec))
    /\ (pc = "reloaded" => TitleRule(dict, rec2))

\* a blank name, and a name with surrounding spaces, have both been built
C2_Witness ==
    /\ pc = "built"
    /\ data.v.title = Absent
    /\ \/ (data.v.name = PyStr(<<" "," ">>) /\ rec.v.title = TitlePlaceholder)
       \/ (data.v.name = PyStr(<<" ","D","e","v">>) /\ rec.v.title = <<"D","e","v">>)

\* C3 (as claimed): for every input mapping the url is decided by the URL
\* field alone: empty or absent gives "", an http(s) value is stored
\* trimmed, any other non-empty value fails with the invalid-URL error
\* (ValueError).
C3_UrlDecidedByUrlField ==
    pc # "input" /\ IsDict(data) =>
        /\ (UrlFieldEmpty(data) => rec.err = "none" /\ rec.v.url = <<>>)
        /\ (UrlFieldWellFormed(data) =>
              rec.err = "none" /\ rec.v.url = strip(UrlField(data).v))
        /\ (~UrlFieldEmpty(data) /\ ~UrlFieldWellFormed(data) => rec.err = "ValueError")

\* C4 (as claimed): both salary bounds of a constructed Vacancy are
\* non-negative integers.
C4_SalaryNonNegative ==
    rec.err = "none" => rec.v.salary_from >= 0 /\ rec.v.salary_to >= 0

CoercionAsClaimed(raw, out) ==
    /\ out.err = "none"
    /\ (raw.k = "none" => out.v = 0)
    /\ (raw.k = "int" => out.v = raw.v)
    /\ (raw.k = "float" => out.v = TruncTenths(raw.v))
    /\ (raw.k = "str" /\ ParseFloat(raw.v).k = "bad" => out.v = 0)
    /\ (raw.k \in {"list", "dict"} => out.v = 0)

\* C5 (as claimed): salary coercion is total: it never raises, None gives
\* 0, a number gives its truncation, a string gives the truncation of its
\* numeric parse or 0, any other type gives 0.
C5_CoercionTotal ==
    coerced # NoCoerced =>
        /\ CoercionAsClaimed(SalaryFromRaw(data.v), coerced[1])
        /\ CoercionAsClaimed(SalaryToRaw(data.v), coerced[2])

\* C6 (as claimed): average_salary() is (salary_from + salary_to) / 2 when
\* a bound is nonzero and 0 otherwise, and is 0 if and only if both bounds
\* are zero.  (average_salary is in halves.)
C6_AverageZeroIffBothZero ==
    rec.err = "none" =>
        LET f == rec.v.salary_from
            t == rec.v.salary_to
        IN  /\ (f # 0 \/ t # 0 => average_salary(rec.v) = f + t)
            /\ (f = 0 /\ t = 0 => average_salary(rec.v) = 0)
            /\ (average_salary(rec.v) = 0 <=> (f = 0 /\ t = 0))

\* live-API shape: neither key url nor key employer_name (the model holds
\* no employer_name key)
IsLiveShape(d) == IsDict(d) /\ d.v.url = Absent

\* C8 (as claimed): a Vacancy built from a live-shaped mapping and the one
\* rebuilt from its to_dict() agree on title, average salary and city.
C8_RoundTrip ==
    pc = "reloaded" /\ IsLiveShape(data) =>
        /\ rec2.err = "none"
        /\ rec2.v.title = rec.v.title
        /\ average_salary(rec2.v) = average_salary(rec.v)
        /\ rec2.v.city = rec.v.city

-----------------------------------------------------------------------------
(* Claims about ordering (scenario 2) *)

\* twice the mean of the two bounds
BoundSum(x) == Held(x).salary_from + Held(x).salary_to

\* C7: each of ==, <, <=, >, >= on two records is the same comparison of
\* their average salaries and reads no other field (records with equal
\* averages are ==, <= and >= whatever their titles and bounds); <= is a
\* total preorder: reflexive, transitive, any two records comparable.
C7_OrderByAverageOnly ==
    pc = "compared" =>
        /\ \A x \in Slots, y \in Slots :
              /\ (<<x, y>> \in cmp.eq <=> BoundSum(x) = BoundSum(y))
              /\ (<<x, y>> \in cmp.lt <=> BoundSum(x) < BoundSum(y))
              /\ (<<x, y>> \in cmp.le <=> BoundSum(x) <= BoundSum(y))
              /\ (<<x, y>> \in cmp.gt <=> BoundSum(x) > BoundSum(y))
              /\ (<<x, y>> \in cmp.ge <=> BoundSum(x) >= BoundSum(y))
              /\ (<<x, y>> \in cmp.le \/ <<y, x>> \in cmp.le)
              /\ (<<x, y>> \in cmp.eq <=> (<<x, y>> \in cmp.le /\ <<x, y>> \in cmp.ge))
        /\ \A x \in Slots : <<x, x>> \in cmp.le /\ <<x, x>> \in cmp.eq
        /\ \A x \in Slots, y \in Slots, z \in Slots :
              <<x, y>> \in cmp.le /\ <<y, z>> \in cmp.le => <<x, z>> \in cmp.le

\* two records that differ in title and in both bounds compared equal, and
\* a third one compared greater
C7_Witness ==
    /\ pc = "compared"
    /\ vacA.title # vacB.title
    /\ vacA.salary_from # vacB.salary_from /\ vacA.salary_to # vacB.salary_to
    /\ <<"A", "B">> \in cmp.eq /\ <<"A", "B">> \in cmp.le /\ <<"A", "B">> \in cmp.ge
    /\ <<"A", "C">> \in cmp.lt

-----------------------------------------------------------------------------
(* Claims about the stores (scenario 3) *)

\* a stored or offered record as (id text, title text); a missing id reads ""
Brief(item) ==
    <<IF Get(item.v.id).k = "str" THEN Get(item.v.id).v ELSE <<>>, item.v.title.v>>
Briefs(rows) == [i \in DOMAIN rows |-> Brief(rows[i])]
Positions(rows, id) == {i \in DOMAIN rows : Brief(rows[i])[1] = id}
StoredIds(rows) == {Brief(rows[i])[1] : i \in DOMAIN rows}
NamedNew(rows, offered) ==
    Filter(offered, {x \in Range(offered) :
                        Brief(x)[1] # <<>> /\ Brief(x)[1] \notin StoredIds(rows)})
Named(rows) == Filter(rows, {x \in Range(rows) : Brief(x)[1] # <<>>})

\* C9: when a store holds one record with a non-empty id and a later save
\* call offers that id again, the store still holds exactly one record with
\* that id, the first-saved one; the existing records stay in place and the
\* records with new ids follow them in the order given.
C9_SaveKeepsFirstSaved ==
    [][lastOp' = "save" =>
         LET old == load_data(file)
             new == load_data(file')
         IN  /\ \A id \in {<<"1">>, <<"2">>} :
                  Cardinality(Positions(old, id)) = 1 =>
                      /\ Positions(new, id) = Positions(old, id)
                      /\ \A i \in Positions(old, id) : Brief(new[i]) = Brief(old[i])
             /\ Len(new) >= Len(old)
             /\ Briefs(SubSeq(new, 1, Len(old))) = Briefs(old)
             /\ Briefs(Named(SubSeq(new, Len(old) + 1, Len(new))))
                  = Briefs(NamedNew(old, batch'))
    ]_vars

\* id 1 was saved, then offered again with another title next to a new id
C9_Witness ==
    /\ lastOp = "save"
    /\ Briefs(batch) = <<<< <<"1">>, <<"b">> >>, << <<"2">>, <<"a">> >>>>
    /\ Briefs(file.rows) = <<<< <<"1">>, <<"a">> >>, << <<"2">>, <<"a">> >>>>

\* C10 (as claimed): no two records of the store share a non-empty id.
C10_NoDuplicateIds ==
    \A i \in DOMAIN file.rows, j \in DOMAIN file.rows :
        i # j /\ Brief(file.rows[i])[1] # <<>> =>
            Brief(file.rows[i])[1] # Brief(file.rows[j])[1]

-----------------------------------------------------------------------------
(* Claims about load_vacancies (scenario 5) *)

\* the items of the response to page p, none for a failed request
ItemsAt(p) ==
    IF ResponseAt(p).status = "ok" THEN GetOr(ResponseAt(p).items, PyListOf(<<>>)).v
    ELSE <<>>

\* the records of the items that are mappings and can be constructed
Constructible(items) ==
    LET ok == SelectSeq(items, LAMBDA x : IsDict(x) /\ Vacancy(x).err = "none")
    IN  [i \in DOMAIN ok |-> Vacancy(ok[i]).v]

RECURSIVE ConstructibleUpTo(_)
ConstructibleUpTo(p) ==
    IF p < 0 THEN <<>> ELSE ConstructibleUpTo(p - 1) \o Constructible(ItemsAt(p))

\* C11: when load_vacancies is over it has returned normally, and its
\* result holds, in page order, one record for every item of the pages it
\* processed that is a mapping and can be constructed: a bad item is
\* skipped and never aborts the batch or loses the records of other items.
C11_BadItemSkipped ==
    (pc = "load" /\ outcome \notin {"idle", "running"})
        => /\ outcome = "returned"
           /\ vacancies = ConstructibleUpTo(Len(requested) - 1)

RECURSIVE PagesClaimed(_)
\* how many pages, from page p on, have their items collected when the end
\* of the results is signalled either way: a failed request or an empty
\* items list ends the call, so does the last page of a payload that
\* carries `pages`, and so does the cap
PagesClaimed(p) ==
    IF p >= 20 THEN p
    ELSE IF ResponseAt(p).status = "error" \/ ItemsAt(p) = <<>> THEN p
    ELSE IF ResponseAt(p).pages.k = "int" /\ p >= ResponseAt(p).pages.v - 1 THEN p + 1
    ELSE PagesClaimed(p + 1)

\* C25: pagination completion can be signalled either way: with a `pages`
\* field load_vacancies consumes pages 0..pages-1; without one it keeps
\* requesting successive pages and collecting their items until a page with
\* an empty items list (up to the 20-page cap), so the records of all
\* non-empty pages are collected.
C25_EitherSignal ==
    (pc = "load" /\ outcome = "returned")
        => vacancies = ConstructibleUpTo(PagesClaimed(0) - 1)

\* C26: load_vacancies always terminates and issues at most 20 page requests
\* per call, for the page indices 0, 1, 2, ... in increasing order without
\* repeating or skipping one, whatever the API answers.
C26_BoundedOrderedRequests ==
    /\ [](pc = "load" =>
            /\ Len(requested) <= 20
            /\ \A i \in DOMAIN requested : requested[i] = i - 1)
    /\ <>(pc = "load" /\ outcome \notin {"idle", "running"})

\* a call has stopped at the cap
C26_Witness == pc = "load" /\ outcome = "returned" /\ Len(requested) = 20

\* C27: when a page request fails, the call returns without raising, no
\* further page is requested, and the result is exactly the records
\* collected from the pages fetched before the failure in this call: none
\* if the first page failed, never records of an earlier call.
C27_RequestFailureStops ==
    (pc = "load" /\ requested # <<>>
        /\ ResponseAt(requested[Len(requested)]).status = "error")
        => /\ outcome = "returned"
           /\ ~ENABLED LoadPage
           /\ vacancies = ConstructibleUpTo(Len(requested) - 2)

\* the second request failed after a first page that gave a record
C27_Witness ==
    /\ pc = "load" /\ Len(requested) = 2
    /\ ResponseAt(1).status = "error"
    /\ vacancies # <<>>

-----------------------------------------------------------------------------
(* Claims about the described and serialized record (scenario 4) *)

RECURSIVE WithSeparators(_)
\* the decimal digits of n >= 0, a comma before every group of three
WithSeparators(n) ==
    IF n < 1000 THEN NatToStr(n)
    ELSE WithSeparators(n \div 1000) \o <<",">>
            \o <<Digits[((n \div 100) % 10) + 1], Digits[((n \div 10) % 10) + 1],
                 Digits[(n % 10) + 1]>>

\* " <currency> (gross)" or " <currency> (net)"
Suffix(v) ==
    <<" ">> \o v.currency \o (IF v.gross THEN <<" ","(","g","r","o","s","s",")">> ELSE <<" ","(","n","e","t",")">>)

Described == pc \in {"built", "dumped", "reloaded"} /\ view # NoView

\* C12 as stated: salary_info is "Зарплата не указана" when both bounds are
\* zero, "<amount> <currency> (gross|net)" when they are equal and nonzero,
\* and "от <from> до <to> <currency> (gross|net)" with both amounts
\* whenever they differ.
C12_SalaryInfoBothBounds ==
    Described =>
        LET f == rec.v.salary_from
            t == rec.v.salary_to
            amount(n) == IF n < 0 THEN <<"-">> \o WithSeparators(-n) ELSE WithSeparators(n)
        IN  view.salary_info =
                IF f = 0 /\ t = 0 THEN SalaryNotStated
                ELSE IF f = t THEN amount(f) \o Suffix(rec.v)
                ELSE S_ot \o amount(f) \o <<" ">> \o S_do \o amount(t) \o Suffix(rec.v)

\* C12 amended: salary_info is "Зарплата не указана" when both bounds are
\* zero; "<amount> <currency> (gross|net)" when they are equal and
\* positive; otherwise it names only the positive bounds: "от <from> до
\* <to> ..." when both are positive, "от <from> ..." when only from is,
\* "до <to> ..." when only to is, and "зарплата не указана" when none is.
\* Amounts carry thousands separators and no decimals.
C12_SalaryInfo ==
    Described =>
        LET f == rec.v.salary_from
            t == rec.v.salary_to
        IN  view.salary_info =
                IF f = 0 /\ t = 0 THEN SalaryNotStated
                ELSE IF f = t /\ f > 0 THEN WithSeparators(f) \o Suffix(rec.v)
                ELSE IF f > 0 /\ t > 0
                     THEN S_ot \o WithSeparators(f) \o <<" ">> \o S_do
                            \o WithSeparators(t) \o Suffix(rec.v)
                ELSE IF f > 0 THEN S_ot \o WithSeparators(f) \o Suffix(rec.v)
                ELSE IF t > 0 THEN S_do \o WithSeparators(t) \o Suffix(rec.v)
                ELSE SalaryNotStatedLower

\* a record with only the upper bound stated has been described
C12_Witness ==
    /\ Described /\ rec.v.salary_from = 0 /\ rec.v.salary_to = 100000
    /\ view.salary_info = <<"d","o"," ","1","0","0",",","0","0","0"," ","R","U","B"," ","(","g","r","o","s","s",")">>

Dumped == pc \in {"dumped", "reloaded"}

\* C13 as stated: in to_dict() output salary_from, salary_to and
\* average_salary are None exactly when the underlying value is zero and
\* otherwise a plain integer equal to the underlying value.
C13_ToDictEqualIntegers ==
    Dumped =>
        LET emitted(val, halves) ==
                \/ halves = 0 /\ val = PyNone
                \/ halves # 0 /\ val.k = "int" /\ 2 * val.v = halves
        IN  /\ emitted(dict.v.salary_from, 2 * rec.v.salary_from)
            /\ emitted(dict.v.salary_to, 2 * rec.v.salary_to)
            /\ emitted(dict.v.average_salary, average_salary(rec.v))

\* C13 amended: each of the three is None exactly when the underlying
\* value is zero and otherwise a plain integer, the underlying value
\* truncated toward zero (the value itself for the two bounds, which are
\* whole numbers; an average ending in .5 loses the half).
C13_ToDictIntegers ==
    Dumped =>
        LET emitted(val, halves) ==
                \/ halves = 0 /\ val = PyNone
                \/ halves > 0 /\ val.k = "int"
                     /\ 2 * val.v <= halves /\ halves < 2 * val.v + 2
                \/ halves < 0 /\ val.k = "int"
                     /\ 2 * val.v >= halves /\ halves > 2 * val.v - 2
        IN  /\ emitted(dict.v.salary_from, 2 * rec.v.salary_from)
            /\ emitted(dict.v.salary_to, 2 * rec.v.salary_to)
            /\ emitted(dict.v.average_salary, average_salary(rec.v))

\* a record whose average ends in .5 has been serialized
C13_Witness ==
    /\ Dumped /\ rec.v.salary_from = 999 /\ rec.v.salary_to = 1000
    /\ dict.v.average_salary = PyInt(999)

\* a then b, " | " between them when neither is empty
Piped(a, b) ==
    IF a = <<>> THEN b ELSE IF b = <<>> THEN a ELSE a \o <<" ","|"," ">> \o b

\* C14: str(vacancy) is title, salary_info and city joined by " | ", empty
\* segments left out and the city left out when it is the placeholder
\* "Не указан"; a record "Dev", 100000..100000 RUB gross, city "Moskva"
\* reads "Dev | 100,000 RUB (gross) | Moskva".
C14_DisplayString ==
    Described =>
        /\ view.str = Piped(Piped(rec.v.title, view.salary_info),
                            IF rec.v.city = NotSpecified THEN <<>> ELSE rec.v.city)
        /\ (/\ rec.v.title = <<"D","e","v">> /\ rec.v.city = <<"M","o","s","k","v","a">>
            /\ rec.v.salary_from = 100000 /\ rec.v.salary_to = 100000
            /\ rec.v.currency = S_RUB /\ rec.v.gross)
              => view.str = <<"D","e","v"," ","|"," ","1","0","0",",","0","0","0"," ","R","U","B"," ","(","g","r","o","s","s",")"," ","|"," ","M","o","s","k","v","a">>

\* a record whose city is the placeholder has been described
C14_Witness ==
    /\ Described /\ rec.v.city = NotSpecified /\ rec.v.salary_from = 100000
    /\ rec.v.salary_to = 0
    /\ view.str = <<"D","e","v"," ","|"," ","o","t"," ","1","0","0",",","0","0","0"," ","R","U","B"," ","(","g","r","o","s","s",")">>

\* the mapping d without the keys in keys / with no other keys than keys
Without(d, keys) == PyDict(With(NoKeys, [key \in DOMAIN d.v \ keys |-> d.v[key]]))
Only(d, keys) == PyDict(With(NoKeys, [key \in DOMAIN d.v \cap keys |-> d.v[key]]))

HasKey(d, key) == At(d.v, key).k # "absent"
NonEmptyMapping(val) == IsDict(val) /\ Truthy(val)

\* the keys only the saved shape and only the live shape use
SavedKeys ==
    {"title", "url", "salary_from", "salary_to", "currency", "gross", "city", "street",
     "building", "responsibilities", "requirements", "employer_name", "employer_url"}
LiveKeys == {"name", "alternate_url", "salary", "address", "employer", "snippet"}

Built == pc \in {"built", "dumped", "reloaded"}

\* C15 as stated: the shape is decided once; a mapping with a `url` or an
\* `employer_name` key is read from the saved-shape keys alone, any other
\* mapping from the live-API keys alone.
C15_ShapeDecidedOnce ==
    Built =>
        rec = Vacancy(Without(data, IF HasKey(data, "url") \/ HasKey(data, "employer_name")
                                    THEN LiveKeys ELSE SavedKeys))

\* C15 amended: every field is resolved on its own, whatever other keys the
\* mapping holds: the title from `title`, or from `name` when `title` is
\* missing or falsy; the url from `url`, or from `alternate_url` when `url`
\* is missing or falsy; salary bounds, currency and gross from `salary`
\* when that is a non-empty mapping, else from the flat keys; likewise
\* city, street, building (`address`), responsibilities, requirements
\* (`snippet`) and the employer's name and URL (`employer`).
C15_FieldsResolvedAlone ==
    Built =>
        LET from(keys) == Vacancy(Only(data, keys)).v
            nested(key) == NonEmptyMapping(At(data.v, key))
            title == from(IF Truthy(At(data.v, "title")) THEN {"title"} ELSE {"name"})
            url == from(IF Truthy(At(data.v, "url")) THEN {"url"} ELSE {"alternate_url"})
            salary == from(IF nested("salary") THEN {"salary"}
                           ELSE {"salary_from", "salary_to", "currency", "gross"})
            address == from(IF nested("address") THEN {"address"}
                            ELSE {"city", "street", "building"})
            snippet == from(IF nested("snippet") THEN {"snippet"}
                            ELSE {"responsibilities", "requirements"})
            employer == from(IF nested("employer") THEN {"employer"}
                             ELSE {"employer_name", "employer_url"})
        IN  /\ rec.v.title = title.title
            /\ rec.v.url = url.url
            /\ \A f \in {"salary_from", "salary_to", "currency", "gross"} :
                  rec.v[f] = salary[f]
            /\ \A f \in {"city", "street", "building"} : rec.v[f] = address[f]
            /\ \A f \in {"responsibilities", "requirements"} : rec.v[f] = snippet[f]
            /\ \A f \in {"employer_name", "employer_url"} : rec.v[f] = employer[f]

\* a mapping with a `url` key and no `title` took its title from `name`
\* and its salary from the nested mapping
C15_Witness ==
    /\ Built /\ HasKey(data, "url") /\ ~HasKey(data, "title")
    /\ HasKey(data, "salary") /\ HasKey(data, "salary_from")
    /\ rec.v.title = <<"N">> /\ rec.v.salary_from = 2

\* the same kind of value and the same value
SameValue(a, b) == a.k = b.k /\ a.v = b.v

\* C16: experience is the `name` of a nested experience mapping or the flat
\* string value of `experience` itself, which a reloaded record keeps; only
\* an absent value or one that is neither a mapping nor a string becomes
\* the placeholder "Не указан".
C16_ExperienceKept ==
    Built =>
        LET given == Get(At(data.v, "experience"))
        IN  SameValue(rec.v.experience,
                      IF IsStr(given) THEN given
                      ELSE IF IsDict(given) /\ HasKey(given, "name") THEN given.v.name
                      ELSE PyStr(NotSpecified))

\* C17: the employer_url of a constructed record is None or a string that
\* starts with http:// or https://.
C17_EmployerUrlValid ==
    Built =>
        \/ rec.v.employer_url.k = "none"
        \/ /\ IsStr(rec.v.employer_url)
           /\ \/ StartsWith(rec.v.employer_url.v, S_http)
              \/ StartsWith(rec.v.employer_url.v, S_https)

\* "none" or "null" in any letter case
PlaceholderLike(val) == IsStr(val) /\ lower(val.v) \in {S_none, S_null}

\* C18: employer_name and employer_url come from the nested employer
\* mapping's `name` and `alternate_url` or from the flat `employer_name`
\* and `employer_url`; a missing or placeholder-like value gives
\* "Не указано" for the name and None for the URL, any other value is kept.
C18_EmployerFields ==
    Built =>
        LET employer == At(data.v, "employer")
            live == NonEmptyMapping(employer)
            name == IF live THEN Get(At(employer.v, "name"))
                    ELSE Get(At(data.v, "employer_name"))
            url == IF live THEN Get(At(employer.v, "alternate_url"))
                   ELSE Get(At(data.v, "employer_url"))
        IN  /\ rec.v.employer_name =
                  IF name.k = "none" \/ PlaceholderLike(name) THEN EmployerPlaceholder
                  ELSE name.v
            /\ SameValue(rec.v.employer_url,
                         IF url.k = "none" \/ PlaceholderLike(url) THEN PyNone ELSE url)

\* C19: professional_roles of a constructed record is a list of strings,
\* one per element of a roles list given in the input, in input order.
C19_RolesAreStrings ==
    Built =>
        /\ \A i \in DOMAIN rec.v.professional_roles : IsStr(rec.v.professional_roles[i])
        /\ IsList(At(data.v, "professional_roles"))
              => Len(rec.v.professional_roles) = Len(data.v.professional_roles.v)

\* C20 as stated: the id is the stringified value of key `id` when that
\* key holds a truthy value and the empty string in every other case.
C20_IdOfTruthyValue ==
    Built =>
        LET given == Get(At(data.v, "id"))
        IN  rec.v.id = IF Truthy(given) THEN str(given) ELSE <<>>

\* C20 amended: the id is the empty string when key `id` is absent or holds
\* None, and the stringified value in every other case, falsy values
\* included: 0 gives "0", False gives "False", "" gives "".
C20_IdOfValue ==
    Built =>
        LET given == At(data.v, "id")
        IN  rec.v.id =
                CASE given.k \in {"absent", "none"} -> <<>>
                  [] given.k = "str" -> given.v
                  [] given.k = "bool" -> IF given.v THEN <<"T","r","u","e">> ELSE <<"F","a","l","s","e">>
                  [] given.k = "int" ->
                        IF given.v < 0 THEN <<"-">> \o WithSeparators(-given.v)
                        ELSE WithSeparators(given.v)

\* a record was built from a mapping whose id is 0
C20_Witness ==
    Built /\ At(data.v, "id") = PyInt(0) /\ rec.v.id = <<"0">>

\* the city, street or building value the constructor reads (lines 206-214)
AddressGiven(d, key) ==
    IF NonEmptyMapping(Get(At(d.v, "address")))
    THEN Get(At(d.v.address.v, key)) ELSE Get(At(d.v, key))

\* absent, or "", "none" or "null" in any letter case
AbsentOrPlaceholder(val) ==
    val.k = "none" \/ (IsStr(val) /\ lower(val.v) \in {<<>>, S_none, S_null})

\* C21: city is "Не указан" whenever the city value (nested address.city or
\* flat city) is absent or placeholder-like ("", "none", "null" in any letter
\* case) and otherwise the given value; street and building are "" when
\* absent or placeholder-like and otherwise the given value.
C21_AddressFields ==
    (Built /\ rec.err = "none") =>
        /\ rec.v.city = IF AbsentOrPlaceholder(AddressGiven(data, "city"))
                        THEN NotSpecified ELSE str(AddressGiven(data, "city"))
        /\ rec.v.street = IF AbsentOrPlaceholder(AddressGiven(data, "street"))
                          THEN <<>> ELSE str(AddressGiven(data, "street"))
        /\ rec.v.building = IF AbsentOrPlaceholder(AddressGiven(data, "building"))
                            THEN <<>> ELSE str(AddressGiven(data, "building"))

-----------------------------------------------------------------------------
(* Claims about the text helpers (scenario 6) *)

\* the phrase the unit stem u is normalized to
UnitPhrase(u) ==
    CASE u = 1 -> <<" ","m","e","s","y","a","t","s","a">>
      [] u = 2 -> <<" ","n","e","d","e","l","i">>
      [] u = 3 -> <<" ","d","n","y","a">>
      [] OTHER -> <<" ","g","o","d","a">>

\* at position i of s an integer starts that runs to j - 1 and is followed,
\* after the whitespace up to k - 1, by the stem u in any letter case
OccursAt(s, i, j, k, u) ==
    /\ i < j /\ j <= k
    /\ \A x \in i..(j - 1) : IsDigit(s[x])
    /\ \A x \in j..(k - 1) : IsSpace(s[x])
    /\ k + Len(UnitStems[u]) - 1 <= Len(s)
    /\ lower(SubSeq(s, k, k + Len(UnitStems[u]) - 1)) = UnitStems[u]
Occurrences(s) ==
    {o \in (1..Len(s)) \X (1..(Len(s) + 1)) \X (1..(Len(s) + 1)) \X DOMAIN UnitStems :
        OccursAt(s, o[1], o[2], o[3], o[4])}
\* the first occurrence: the leftmost start, with all the digits from there
FirstOccurrence(s) ==
    CHOOSE o \in Occurrences(s) :
        \A q \in Occurrences(s) : o[1] < q[1] \/ (o[1] = q[1] /\ o[2] >= q[2])

\* C22: extract_probation_period matches case-insensitively: for every text
\* that contains an integer N, optional whitespace and a unit stem in any
\* letter case it returns the phrase "N <unit>" of the first such
\* occurrence, the suffix fixed per unit; it returns None only when the text
\* holds no such pattern.
C22_CaseInsensitive ==
    pc = "extracted" =>
        IF Occurrences(probText) = {} THEN probation = PyNone
        ELSE LET o == FirstOccurrence(probText)
             IN  /\ IsStr(probation)
                 /\ probation.v = SubSeq(probText, o[1], o[2] - 1) \o UnitPhrase(o[4])

-----------------------------------------------------------------------------
(* Claims about the top-N view (scenario 7) *)

Rearrangements(k) == {p \in [1..k -> 1..k] : \A i, j \in 1..k : p[i] = p[j] => i = j}

\* ys is xs rearranged by p, which keeps the relative order of equal averages
StableOrderOf(ys, xs, p) ==
    /\ \A i \in DOMAIN ys : ys[i] = xs[p[i]]
    /\ \A i, j \in DOMAIN ys :
          (i < j /\ average_salary(ys[i]) = average_salary(ys[j])) => p[i] < p[j]

\* C23: the top-N view sorts the records by average_salary() descending with
\* a stable sort: the output is a permutation of the input, averages are
\* non-increasing along it, records with equal average keep their original
\* relative order, the caller's list is left unchanged, and top N is the
\* first min(N, length) elements of that order.
C23_TopNStableSort ==
    [][pc' = "shown" =>
         /\ main_vacancies' = main_vacancies
         /\ Len(sorted_vacancies') = Len(main_vacancies)
         /\ \E p \in Rearrangements(Len(main_vacancies)) :
                StableOrderOf(sorted_vacancies', main_vacancies, p)
         /\ \A i, j \in DOMAIN sorted_vacancies' :
                i < j => average_salary(sorted_vacancies'[i])
                            >= average_salary(sorted_vacancies'[j])
         /\ Len(top_n') = (IF topN < Len(main_vacancies) THEN topN ELSE Len(main_vacancies))
         /\ \A i \in DOMAIN top_n' : top_n'[i] = sorted_vacancies'[i]]_vars

\* a list in which a record of lower average precedes two of equal, higher
\* average has been sorted and cut
C23_Witness ==
    /\ pc = "shown"
    /\ Len(main_vacancies) = 3 /\ topN = 2
    /\ average_salary(main_vacancies[1]) < average_salary(main_vacancies[2])
    /\ average_salary(main_vacancies[2]) = average_salary(main_vacancies[3])
    /\ main_vacancies[2] # main_vacancies[3]
    /\ top_n = <<main_vacancies[2], main_vacancies[3]>>

-----------------------------------------------------------------------------
(* Claims about comparing a record with another value (scenario 2) *)

\* C24: comparing a Vacancy with a value that is not a Vacancy never crashes
\* inside the record: each of the five comparison methods returns
\* NotImplemented without reading a field of the other value, so that
\* v == "not a vacancy" evaluates to False.
C24_NotImplementedForOthers ==
    (cmpOther # NoCmpOther /\ other.k # "Vacancy") =>
        /\ cmpOther.eq = NotImplemented /\ cmpOther.lt = NotImplemented
        /\ cmpOther.le = NotImplemented /\ cmpOther.gt = NotImplemented
        /\ cmpOther.ge = NotImplemented
        /\ cmpOther.equal = FALSE

\* a record has been compared with a mapping that holds a record's salary
\* fields, which would compare equal if the fields were read
C24_Witness ==
    /\ cmpOther # NoCmpOther
    /\ other.k = "dict"
    /\ vacA.salary_from = 0 /\ vacA.salary_to = 0

-----------------------------------------------------------------------------
(* Claims about rejected and repeated saves (scenario 3) *)

\* C28: save_data called with a batch that holds an element that is not a
\* mapping raises ValueError and leaves the stored file exactly as it was:
\* no record of the batch, valid or not, is written, in the JSON and in the
\* CSV store.
C28_RejectedSaveWritesNothing ==
    [][(lastOp' \in {"save", "save_error"} /\ ~AllMappings(batch'))
          => (lastOp' = "save_error" /\ file' = file)]_vars

\* a batch of a mapping with a new id and a value that is none has been
\* rejected by a store that holds a record
C28_Witness ==
    /\ lastOp = "save_error"
    /\ file.exists /\ Len(file.rows) = 1
    /\ Len(batch) = 2 /\ IsDict(batch[1]) /\ ~IsDict(batch[2])
    /\ Brief(batch[1])[1] \notin StoredIds(file.rows) \cup {<<>>}

\* C29: save_data is idempotent on whole batches: saving a batch of
\* mappings twice in a row leaves the store exactly as after the first
\* save, also when the batch holds records whose id is the empty string or
\* missing.
C29_SaveIdempotent ==
    [][(lastOp = "save" /\ lastOp' = "save" /\ batch' = batch) => file' = file]_vars


(* Claims about the serialized average (scenario 4) *)

\* C30: in to_dict() output average_salary is never the integer 0: it is
\* None when no salary is stated (both bounds zero) and a nonzero integer
\* otherwise, for every pair of bounds, a pair such as from = 0, to = 1
\* whose average is fractional included.
C30_AverageNeverIntegerZero ==
    Dumped =>
        IF rec.v.salary_from = 0 /\ rec.v.salary_to = 0
        THEN dict.v.average_salary = PyNone
        ELSE dict.v.average_salary.k = "int" /\ dict.v.average_salary.v # 0

====
